---- MODULE Spec2Model ----
(***************************************************************************)
(* Price discovery, strike selection and combo pricing of the meic         *)
(* option-strategy scripts (market_data.py, options.py, main.py).          *)
(*                                                                         *)
(* Python floats are modelled as records: [k |-> "num", v |-> n] is the    *)
(* number n/2 (fixed point, counted in halves, so that the midpoint of two *)
(* whole quotes is exact), [k |-> "NaN"] is float('nan'), [k |-> "inf"] is *)
(* float('inf') and [k |-> "None"] is Python's None.                       *)
(***************************************************************************)
EXTENDS Integers, Sequences, FiniteSets, TLC

\* ---------------------------------------------------------------- bounds
\* Largest whole quote (bid, ask, last, close) the broker answers with.
MaxQuote == 2
\* Largest max_retries the caller passes to get_current_mid_price.
MaxRetriesArg == 3
\* Largest strike of an option chain (strikes are 1.0 .. MaxStrike).
MaxStrike == 3
\* Longest option chain the broker lists.
MaxChain == 2
\* Most legs of a combo handed to get_combo_prices.
MaxComboLegs == 2
\* Most legs of a strategy handed to calc_combo_model_price.
MaxLegs == 2

\* ------------------------------------------------------- Python values
Num(n) == [k |-> "num", v |-> n]
None == [k |-> "None", v |-> 0]
NaN == [k |-> "NaN", v |-> 0]
Inf == [k |-> "inf", v |-> 0]
\* The broker's "no data" quote, the float -1.0 (two halves below zero).
MinusOne == Num(-2)

\* x is None
IsNone(x) == x.k = "None"
\* math.isnan(x), for a float x
isnan(x) == x.k = "NaN"
\* Python's x == y on floats and None: NaN equals nothing, not even itself.
PyEq(x, y) ==
    \/ x.k = "num" /\ y.k = "num" /\ x.v = y.v
    \/ x.k = "None" /\ y.k = "None"
    \/ x.k = "inf" /\ y.k = "inf"
\* Python's x != y
PyNe(x, y) == ~PyEq(x, y)

\* A usable number: a float that is neither NaN nor the -1 sentinel.
Usable(x) == x.k = "num" /\ x # MinusOne

\* Whole quotes 0.0, 1.0, ... as numbers in halves.
Quotes == {Num(2 * q) : q \in 0..MaxQuote}
\* What a ticker field (bid, ask, last) can hold after the wait.
TickerValues == Quotes \cup {None, NaN, MinusOne}

VARIABLES
    \* get_current_mid_price
    mid_pc,          \* position in the function
    max_retries,     \* the argument max_retries
    attempt,         \* the local attempt
    ticker,          \* the local ticker (bid, ask, last), None before the first answer
    mid_ret,         \* the value returned ("running" until the function returns)
    now,             \* elapsed time, in seconds
    mktDataTimes,    \* the time of every ib.reqMktData call, in order
    histCalls,       \* number of ib.reqHistoricalData calls
    source,          \* which branch produced the returned value
    attempts_log,    \* the outcome of every attempt, in order
    usable_seen,     \* history: some source held a usable number on some attempt
    \* get_atm_strike and get_closest_strike
    cs_pc,           \* position in the function
    cs_fn,           \* which of the two functions runs
    option_chain,    \* the broker's chain, in its order: strike and ticker bid
    price,           \* the target price (price / current_price)
    idx,             \* the loop's position in the chain
    closest_strike,  \* the local closest_strike
    min_difference,  \* the local min_difference
    chosen_bid,      \* history: the bid quoted for the element closest_strike came from
    cs_ret,          \* the value returned ("running" until the function returns)
    \* get_option_by_target_price
    tp_pc,               \* position in the function
    right,               \* the argument right, 'P' or 'C'
    atm_strike,          \* the argument atm_strike
    target_price,        \* the argument target_price
    all_strikes,         \* the set all_strikes after the ATM filter
    qualified_contracts, \* the qualified contracts, by strike, in request order
    tickers,             \* the tickers of the qualified contracts, in order
    valid_options,       \* the list valid_options of (contract, price)
    tp_ret,              \* the pair returned ("running" until the function returns)
    \* get_combo_prices
    cp_pc,           \* position in the function
    cp_legs,         \* the legs: action, ratio and the quoted bid and ask
    cp_tick,         \* the configured tick size, in halves
    cp_i,            \* the leg the loop is at
    total_bid,       \* the signed sum of the bids so far
    total_ask,       \* the signed sum of the asks so far
    cp_ret,          \* the triple returned ("running" until the function returns)
    \* calc_combo_model_price
    cm_pc,               \* position in the function
    strategy_legs,       \* the argument strategy_legs: action and ratio of each leg
    min_tick,            \* the argument min_tick, in halves
    leg_no,              \* the leg the for loop is at
    model_arrived,       \* whether ticker.modelGreeks held an optPrice for this leg
    cm_ticker,           \* bid and ask of the leg's real-time ticker
    opt_price,           \* the local opt_price
    total_model_price,   \* the local total_model_price
    market_data_type,    \* the type last set with ib.reqMarketDataType
    first_request_type,  \* the type in force at this leg's first reqMktData
    hist_asked,          \* whether reqHistoricalData was called for this leg
    opened,              \* number of reqMktData subscriptions opened
    cancelled,           \* number of cancelMktData calls
    leg_log,             \* per processed leg: the source of its price, or "skipped"
    leg_prices,          \* per processed leg: the opt_price it was given, None if skipped
    cm_ret,              \* the value returned ("running" until the function returns)
    \* submit_adaptive_order_trailing_stop
    ord_pc,              \* position in the function
    contract_exchange,   \* order_contract.exchange
    limit_price,         \* the argument limit_price
    ord_action,          \* the argument action
    order_type,          \* the argument order_type
    quantity,            \* the argument quantity
    stop_loss_amt,       \* the argument stop_loss_amt
    is_live,             \* the argument is_live
    primary_order,       \* the local primary_order, None before it is built
    trailing_stop_order, \* the local trailing_stop_order, None before it is built
    placed,              \* the orders handed to ib.placeOrder, in order, as they were then
    ord_ret,             \* the value returned ("running" until the function returns)
    \* iron_condor, put_credit_spread, call_credit_spread and create_bag
    bag_pc,              \* position in the strategy function
    strategy,            \* which strategy function runs
    short_strike,        \* the argument short_strike (mid_strike of iron_condor)
    long_strike,         \* the argument long_strike (lower_strike of iron_condor)
    higher_strike,       \* the argument higher_strike of iron_condor, None otherwise
    legs,                \* the contracts qualify_contract returned so far, in order
    bag_ret,             \* the pair returned ("running" until the function returns)
    \* ib_instance: the connection loop run at import
    ib_pc,               \* position in the module body
    ib_attempt,          \* the loop variable attempt (the attempts made so far)
    connected,           \* whether the ib session is connected
    ib_now,              \* elapsed time, in seconds
    connect_log,         \* every ib.connect call: its start, its end, whether it succeeded
    \* main.py
    main_pc,             \* position in the script
    current_mid,         \* what get_current_mid_price returned
    main_atm,            \* the script's atm_strike, what get_atm_strike returned
    lower_contract,      \* the contract of the put found by target price, or None
    higher_contract,     \* the contract of the call found by target price, or None
    spx_min_tick,        \* cfg.spx_min_tick, in halves
    pcs_mid,             \* the mid get_combo_prices returned for the put spread
    ccs_mid,             \* the mid get_combo_prices returned for the call spread
    pcs_stop_loss_amt,   \* the stop-loss amount of the put spread
    ccs_stop_loss_amt,   \* the stop-loss amount of the call spread
    orders_submitted,    \* number of submit_adaptive_order_trailing_stop calls
    main_exc             \* the exception that ended the script, "none" if none

midVars == <<mid_pc, max_retries, attempt, ticker, mid_ret, now, mktDataTimes,
             histCalls, source, attempts_log, usable_seen>>

csVars == <<cs_pc, cs_fn, option_chain, price, idx, closest_strike,
            min_difference, chosen_bid, cs_ret>>

tpVars == <<tp_pc, right, atm_strike, target_price, all_strikes,
            qualified_contracts, tickers, valid_options, tp_ret>>

cpVars == <<cp_pc, cp_legs, cp_tick, cp_i, total_bid, total_ask, cp_ret>>

cmVars == <<cm_pc, strategy_legs, min_tick, leg_no, model_arrived, cm_ticker,
            opt_price, total_model_price, market_data_type, first_request_type,
            hist_asked, opened, cancelled, leg_log, leg_prices, cm_ret>>

ordVars == <<ord_pc, contract_exchange, limit_price, ord_action, order_type,
             quantity, stop_loss_amt, is_live, primary_order,
             trailing_stop_order, placed, ord_ret>>

bagVars == <<bag_pc, strategy, short_strike, long_strike, higher_strike, legs,
             bag_ret>>

ibVars == <<ib_pc, ib_attempt, connected, ib_now, connect_log>>

mainVars == <<main_pc, current_mid, main_atm, lower_contract, higher_contract,
              spx_min_tick, pcs_mid, ccs_mid, pcs_stop_loss_amt,
              ccs_stop_loss_amt, orders_submitted, main_exc>>

vars == <<midVars, csVars, tpVars, cpVars, cmVars, ordVars, bagVars,
          ibVars, mainVars>>
notMid == <<csVars, tpVars, cpVars, cmVars, ordVars, bagVars, ibVars,
            mainVars>>
notCs == <<midVars, tpVars, cpVars, cmVars, ordVars, bagVars, ibVars,
           mainVars>>
notTp == <<midVars, csVars, cpVars, cmVars, ordVars, bagVars, ibVars,
           mainVars>>
notCp == <<midVars, csVars, tpVars, cmVars, ordVars, bagVars, ibVars,
           mainVars>>
notCm == <<midVars, csVars, tpVars, cpVars, ordVars, bagVars, ibVars,
           mainVars>>
notOrd == <<midVars, csVars, tpVars, cpVars, cmVars, bagVars, ibVars,
            mainVars>>
notBag == <<midVars, csVars, tpVars, cpVars, cmVars, ordVars, ibVars,
            mainVars>>
notIb == <<midVars, csVars, tpVars, cpVars, cmVars, ordVars, bagVars,
           mainVars>>
notMain == <<midVars, csVars, tpVars, cpVars, cmVars, ordVars, bagVars,
             ibVars>>

\* =====================================================================
\* get_current_mid_price (market_data.py)
\* =====================================================================
\* The default of the argument retry_interval, in seconds.
retry_interval == 1

\* line 30: (bid == -1 or ask == -1) and last is not None and not isnan(last)
LastBranch(t) ==
    /\ PyEq(t.bid, MinusOne) \/ PyEq(t.ask, MinusOne)
    /\ ~IsNone(t.last)
    /\ ~isnan(t.last)

\* Mutant of MidBranch: the test of ask against the -1 sentinel is left out.
MidBranch_IgnoresAskSentinel(t) ==
    /\ ~IsNone(t.bid)
    /\ ~IsNone(t.ask)
    /\ PyNe(t.bid, MinusOne)

\* line 35: bid is not None and ask is not None and bid != -1 and ask != -1
MidBranch(t) ==
    /\ ~IsNone(t.bid)
    /\ ~IsNone(t.ask)
    /\ PyNe(t.bid, MinusOne)
    /\ PyNe(t.ask, MinusOne)

\* line 41: last is None or isnan(last)
HistBranch(t) == IsNone(t.last) \/ isnan(t.last)

\* line 36: (bid + ask) / 2 on floats; NaN on either side gives NaN.
MidPrice(bid, ask) ==
    IF isnan(bid) \/ isnan(ask) THEN NaN ELSE Num((bid.v + ask.v) \div 2)

NoTicker == [bid |-> None, ask |-> None, last |-> None]

\* The locals of get_current_mid_price at line 21.
MidLocals ==
    /\ attempt = 0
    /\ ticker = NoTicker
    /\ mid_ret = "running"
    /\ now = 0
    /\ mktDataTimes = <<>>
    /\ histCalls = 0
    /\ source = "none"
    /\ attempts_log = <<>>
    /\ usable_seen = FALSE

\* get_current_mid_price is not running.
MidIdle ==
    /\ mid_pc = "off"
    /\ max_retries = 0
    /\ MidLocals

\* The locals of the closest-strike functions before the broker is asked.
CsLocals ==
    /\ option_chain = <<>>
    /\ idx = 0
    /\ closest_strike = None
    /\ min_difference = Inf
    /\ chosen_bid = None
    /\ cs_ret = "running"

\* The closest-strike functions are not running.
CsIdle ==
    /\ cs_pc = "off"
    /\ cs_fn = "none"
    /\ price = None
    /\ CsLocals

\* The locals of get_option_by_target_price before the broker is asked.
TpLocals ==
    /\ all_strikes = {}
    /\ qualified_contracts = <<>>
    /\ tickers = <<>>
    /\ valid_options = <<>>
    /\ tp_ret = "running"

\* get_option_by_target_price is not running.
TpIdle ==
    /\ tp_pc = "off"
    /\ right = "none"
    /\ atm_strike = None
    /\ target_price = None
    /\ TpLocals

\* The locals of get_combo_prices before the first leg.
CpLocals ==
    /\ cp_i = 1
    /\ total_bid = Num(0)
    /\ total_ask = Num(0)
    /\ cp_ret = "running"

\* get_combo_prices is not running.
CpIdle ==
    /\ cp_pc = "off"
    /\ cp_legs = <<>>
    /\ cp_tick = 0
    /\ CpLocals

NoQuotes == [bid |-> None, ask |-> None]

\* The locals of calc_combo_model_price at line 81, and the per-leg ones as
\* they are before a leg is looked at.
CmLocals ==
    /\ leg_no = 1
    /\ model_arrived = FALSE
    /\ cm_ticker = NoQuotes
    /\ opt_price = None
    /\ total_model_price = Num(0)
    /\ first_request_type = 0
    /\ hist_asked = FALSE
    /\ opened = 0
    /\ cancelled = 0
    /\ leg_log = <<>>
    /\ leg_prices = <<>>
    /\ cm_ret = "running"

\* calc_combo_model_price is not running.
CmIdle ==
    /\ cm_pc = "off"
    /\ strategy_legs = <<>>
    /\ min_tick = 0
    /\ market_data_type = 0
    /\ CmLocals

\* The locals of submit_adaptive_order_trailing_stop before line 49.
OrdLocals ==
    /\ primary_order = None
    /\ trailing_stop_order = None
    /\ placed = <<>>
    /\ ord_ret = "running"

\* submit_adaptive_order_trailing_stop is not running.
OrdIdle ==
    /\ ord_pc = "off"
    /\ contract_exchange = "none"
    /\ limit_price = None
    /\ ord_action = "none"
    /\ order_type = "none"
    /\ quantity = 0
    /\ stop_loss_amt = None
    /\ is_live = FALSE
    /\ OrdLocals

\* The locals of the strategy functions before the first leg is qualified.
BagLocals ==
    /\ legs = <<>>
    /\ bag_ret = "running"

\* No strategy function is running.
BagIdle ==
    /\ bag_pc = "off"
    /\ strategy = "none"
    /\ short_strike = None
    /\ long_strike = None
    /\ higher_strike = None
    /\ BagLocals

\* ib_instance before line 19.
IbLocals ==
    /\ ib_attempt = 0
    /\ connected = FALSE
    /\ ib_now = 0
    /\ connect_log = <<>>

\* ib_instance is not being imported.
IbIdle ==
    /\ ib_pc = "off"
    /\ IbLocals

\* A name of main.py that no statement has bound yet.
Unbound == [k |-> "unbound", v |-> 0]

\* The names of main.py before line 20.
MainLocals ==
    /\ current_mid = Unbound
    /\ main_atm = Unbound
    /\ lower_contract = Unbound
    /\ higher_contract = Unbound
    /\ pcs_mid = Unbound
    /\ ccs_mid = Unbound
    /\ pcs_stop_loss_amt = Unbound
    /\ ccs_stop_loss_amt = Unbound
    /\ orders_submitted = 0
    /\ main_exc = "none"

\* main.py is not running.
MainIdle ==
    /\ main_pc = "off"
    /\ spx_min_tick = 0
    /\ MainLocals

InitMid ==
    /\ mid_pc = "while"
    /\ max_retries \in 0..MaxRetriesArg
    /\ MidLocals
    /\ CsIdle
    /\ TpIdle
    /\ CpIdle
    /\ CmIdle
    /\ OrdIdle
    /\ BagIdle
    /\ IbIdle
    /\ MainIdle

\* lines 23-27: the loop test passes, reqMktData answers, ib.sleep waits.
MktDataAnswers ==
    /\ mid_pc = "while"
    /\ attempt < max_retries
    /\ \E b \in TickerValues, a \in TickerValues, l \in TickerValues :
          /\ ticker' = [bid |-> b, ask |-> a, last |-> l]
          /\ usable_seen' = (usable_seen \/ Usable(b) \/ Usable(a) \/ Usable(l))
    /\ mktDataTimes' = Append(mktDataTimes, now)
    /\ now' = now + retry_interval
    /\ mid_pc' = "if"
    /\ UNCHANGED <<max_retries, attempt, mid_ret, histCalls, source, attempts_log>>
    /\ UNCHANGED notMid

\* lines 26, 53-54: reqMktData raises; the except clause logs and falls through.
MktDataRaises ==
    /\ mid_pc = "while"
    /\ attempt < max_retries
    /\ mktDataTimes' = Append(mktDataTimes, now)
    /\ attempts_log' = Append(attempts_log, "mkt_raised")
    /\ mid_pc' = "retry"
    /\ UNCHANGED <<max_retries, attempt, ticker, mid_ret, now, histCalls, source,
                   usable_seen>>
    /\ UNCHANGED notMid

\* lines 30-32
ReturnLast ==
    /\ mid_pc = "if"
    /\ LastBranch(ticker)
    /\ mid_ret' = ticker.last
    /\ source' = "last"
    /\ attempts_log' = Append(attempts_log, "last")
    /\ mid_pc' = "return"
    /\ UNCHANGED <<max_retries, attempt, ticker, now, mktDataTimes, histCalls,
                   usable_seen>>
    /\ UNCHANGED notMid

\* lines 35-38
ReturnMid ==
    /\ mid_pc = "if"
    /\ ~LastBranch(ticker)
    /\ MidBranch(ticker)
    /\ mid_ret' = MidPrice(ticker.bid, ticker.ask)
    /\ source' = "mid"
    /\ attempts_log' = Append(attempts_log, "mid")
    /\ mid_pc' = "return"
    /\ UNCHANGED <<max_retries, attempt, ticker, now, mktDataTimes, histCalls,
                   usable_seen>>
    /\ UNCHANGED notMid

\* lines 41-48: the historical request answers with bars; the last close is returned.
ReturnClose ==
    /\ mid_pc = "if"
    /\ ~LastBranch(ticker)
    /\ ~MidBranch(ticker)
    /\ HistBranch(ticker)
    /\ \E close \in Quotes : mid_ret' = close
    /\ usable_seen' = TRUE
    /\ histCalls' = histCalls + 1
    /\ source' = "close"
    /\ attempts_log' = Append(attempts_log, "close")
    /\ mid_pc' = "return"
    /\ UNCHANGED <<max_retries, attempt, ticker, now, mktDataTimes>>
    /\ UNCHANGED notMid

\* Mutant of NoBarsBreak: no break; the attempt falls through to the retry.
NoBarsBreak_FallsThrough ==
    /\ mid_pc = "if"
    /\ ~LastBranch(ticker)
    /\ ~MidBranch(ticker)
    /\ HistBranch(ticker)
    /\ histCalls' = histCalls + 1
    /\ attempts_log' = Append(attempts_log, "nobars")
    /\ mid_pc' = "retry"
    /\ UNCHANGED <<max_retries, attempt, ticker, mid_ret, now, mktDataTimes, source,
                   usable_seen>>
    /\ UNCHANGED notMid

\* lines 49-51, 59-60: no bars; break leaves the loop and None is returned.
NoBarsBreak ==
    /\ mid_pc = "if"
    /\ ~LastBranch(ticker)
    /\ ~MidBranch(ticker)
    /\ HistBranch(ticker)
    /\ histCalls' = histCalls + 1
    /\ mid_ret' = None
    /\ attempts_log' = Append(attempts_log, "nobars")
    /\ mid_pc' = "return"
    /\ UNCHANGED <<max_retries, attempt, ticker, now, mktDataTimes, source,
                   usable_seen>>
    /\ UNCHANGED notMid

\* lines 42, 53-54: reqHistoricalData raises; caught, the attempt is used up.
HistRaises ==
    /\ mid_pc = "if"
    /\ ~LastBranch(ticker)
    /\ ~MidBranch(ticker)
    /\ HistBranch(ticker)
    /\ histCalls' = histCalls + 1
    /\ attempts_log' = Append(attempts_log, "hist_raised")
    /\ mid_pc' = "retry"
    /\ UNCHANGED <<max_retries, attempt, ticker, mid_ret, now, mktDataTimes, source,
                   usable_seen>>
    /\ UNCHANGED notMid

\* No branch of the if/elif chain matches: the attempt falls through.
NoBranch ==
    /\ mid_pc = "if"
    /\ ~LastBranch(ticker)
    /\ ~MidBranch(ticker)
    /\ ~HistBranch(ticker)
    /\ attempts_log' = Append(attempts_log, "nobranch")
    /\ mid_pc' = "retry"
    /\ UNCHANGED <<max_retries, attempt, ticker, mid_ret, now, mktDataTimes,
                   histCalls, source, usable_seen>>
    /\ UNCHANGED notMid

\* Mutant of Retry: the increment of attempt is left out.
Retry_NoIncrement ==
    /\ mid_pc = "retry"
    /\ now' = now + retry_interval
    /\ mid_pc' = "while"
    /\ UNCHANGED <<max_retries, attempt, ticker, mid_ret, mktDataTimes, histCalls,
                   source, attempts_log, usable_seen>>
    /\ UNCHANGED notMid

\* lines 56-57: attempt += 1; time.sleep(retry_interval)
Retry ==
    /\ mid_pc = "retry"
    /\ attempt' = attempt + 1
    /\ now' = now + retry_interval
    /\ mid_pc' = "while"
    /\ UNCHANGED <<max_retries, ticker, mid_ret, mktDataTimes, histCalls, source,
                   attempts_log, usable_seen>>
    /\ UNCHANGED notMid

\* lines 23, 59-60: the loop test fails; return None.
Exhausted ==
    /\ mid_pc = "while"
    /\ attempt >= max_retries
    /\ mid_ret' = None
    /\ mid_pc' = "return"
    /\ UNCHANGED <<max_retries, attempt, ticker, now, mktDataTimes, histCalls,
                   source, attempts_log, usable_seen>>
    /\ UNCHANGED notMid

NextMid ==
    \/ MktDataAnswers
    \/ MktDataRaises
    \/ ReturnLast
    \/ ReturnMid
    \/ ReturnClose
    \/ NoBarsBreak
    \/ HistRaises
    \/ NoBranch
    \/ Retry
    \/ Exhausted

SpecMid == InitMid /\ [][NextMid]_vars

\* =====================================================================
\* get_closest_strike and get_atm_strike (options.py)
\* =====================================================================
\* Strikes 1.0, 2.0, ... of the chain.
Strikes == {Num(2 * k) : k \in 1..MaxStrike}
\* The bid a ticker of the chain can hold.
ChainBids == {None, NaN, MinusOne, Num(2)}
\* The chains the broker can answer with, in any order, strikes repeated or not.
ChainElems == [strike : Strikes, bid : ChainBids]
Chains(elems) == UNION {[1..n -> elems] : n \in 1..MaxChain}
\* get_atm_strike never asks for tickers: its chain carries no bid.
AtmChains == Chains([strike : Strikes, bid : {None}])
\* Target prices: every half point up to just above the highest strike, NaN
\* (a failed strike search upstream) and None (a failed price discovery).
Targets == {Num(h) : h \in 1..(2 * MaxStrike + 1)} \cup {NaN, None}

\* Mutant of AbsDifference: the abs() is left out.
AbsDifference_Signed(strike, p) ==
    IF isnan(p) THEN NaN ELSE Num(strike.v - p.v)

\* abs(strike - price) on floats, for a price that is not None.
AbsDifference(strike, p) ==
    IF isnan(p) THEN NaN
    ELSE Num(IF strike.v >= p.v THEN strike.v - p.v ELSE p.v - strike.v)

\* Mutant of PyLess: <= in place of <, so an equal difference also replaces.
PyLess_OrEqual(x, y) ==
    /\ x.k # "NaN"
    /\ y.k # "NaN"
    /\ \/ x.k = "num" /\ y.k = "inf"
       \/ x.k = "num" /\ y.k = "num" /\ x.v <= y.v

\* Python's x < y on floats: False when either side is NaN.
PyLess(x, y) ==
    /\ x.k # "NaN"
    /\ y.k # "NaN"
    /\ \/ x.k = "num" /\ y.k = "inf"
       \/ x.k = "num" /\ y.k = "num" /\ x.v < y.v

\* Mutant of BidFiltered: only None is filtered, NaN passes.
BidFiltered_NoneOnly(bid) == IsNone(bid)

\* options.py line 55: bid_price is None or math.isnan(bid_price)
BidFiltered(bid) == IsNone(bid) \/ isnan(bid)

InitCs ==
    /\ cs_pc = "request"
    /\ cs_fn \in {"get_atm_strike", "get_closest_strike"}
    /\ price \in Targets
    /\ CsLocals
    /\ MidIdle
    /\ TpIdle
    /\ CpIdle
    /\ CmIdle
    /\ OrdIdle
    /\ BagIdle
    /\ IbIdle
    /\ MainIdle

\* lines 35/87 (and 44): reqContractDetails or reqTickers raises; the except
\* clause returns NaN (lines 70-72, 108-110).
CsRequestRaises ==
    /\ cs_pc = "request"
    /\ cs_ret' = NaN
    /\ cs_pc' = "except"
    /\ UNCHANGED <<cs_fn, option_chain, price, idx, closest_strike,
                   min_difference, chosen_bid>>
    /\ UNCHANGED notCs

\* lines 36-38, 88-90: the broker lists no option.
CsNoOptions ==
    /\ cs_pc = "request"
    /\ cs_ret' = NaN
    /\ cs_pc' = "return"
    /\ UNCHANGED <<cs_fn, option_chain, price, idx, closest_strike,
                   min_difference, chosen_bid>>
    /\ UNCHANGED notCs

\* lines 35-48, 87-93: the broker lists the chain (and, for get_closest_strike,
\* answers the ticker request); the search starts.
CsChainArrives ==
    /\ cs_pc = "request"
    /\ option_chain' \in (IF cs_fn = "get_atm_strike" THEN AtmChains
                          ELSE Chains(ChainElems))
    /\ closest_strike' = None
    /\ min_difference' = Inf
    /\ idx' = 1
    /\ cs_pc' = "for"
    /\ UNCHANGED <<cs_fn, price, chosen_bid, cs_ret>>
    /\ UNCHANGED notCs

\* get_closest_strike lines 52-56: a None or NaN bid; continue.
CsSkipFiltered ==
    /\ cs_pc = "for"
    /\ idx <= Len(option_chain)
    /\ cs_fn = "get_closest_strike"
    /\ BidFiltered(option_chain[idx].bid)
    /\ idx' = idx + 1
    /\ UNCHANGED <<cs_pc, cs_fn, option_chain, price, closest_strike,
                   min_difference, chosen_bid, cs_ret>>
    /\ UNCHANGED notCs

\* lines 58-62, 96-100: the strict comparison against the best so far.
CsCompare ==
    /\ cs_pc = "for"
    /\ idx <= Len(option_chain)
    /\ cs_fn = "get_closest_strike" => ~BidFiltered(option_chain[idx].bid)
    /\ ~IsNone(price)
    /\ LET strike == option_chain[idx].strike
           difference == AbsDifference(strike, price)
       IN  IF PyLess(difference, min_difference)
           THEN /\ min_difference' = difference
                /\ closest_strike' = strike
                /\ chosen_bid' = option_chain[idx].bid
           ELSE UNCHANGED <<min_difference, closest_strike, chosen_bid>>
    /\ idx' = idx + 1
    /\ UNCHANGED <<cs_pc, cs_fn, option_chain, price, cs_ret>>
    /\ UNCHANGED notCs

\* lines 59/97 with price None: strike - None raises TypeError, caught by the
\* except clause, which returns NaN.
CsCompareRaises ==
    /\ cs_pc = "for"
    /\ idx <= Len(option_chain)
    /\ cs_fn = "get_closest_strike" => ~BidFiltered(option_chain[idx].bid)
    /\ IsNone(price)
    /\ cs_ret' = NaN
    /\ cs_pc' = "except"
    /\ UNCHANGED <<cs_fn, option_chain, price, idx, closest_strike,
                   min_difference, chosen_bid>>
    /\ UNCHANGED notCs

\* Mutant of CsReturn: closest_strike is returned as it is, None included.
CsReturn_ReturnsNone ==
    /\ cs_pc = "for"
    /\ idx > Len(option_chain)
    /\ cs_ret' = closest_strike
    /\ cs_pc' = "return"
    /\ UNCHANGED <<cs_fn, option_chain, price, idx, closest_strike,
                   min_difference, chosen_bid>>
    /\ UNCHANGED notCs

\* lines 64-69, 102-107: the loop is over.
CsReturn ==
    /\ cs_pc = "for"
    /\ idx > Len(option_chain)
    /\ cs_ret' = IF ~IsNone(closest_strike) THEN closest_strike ELSE NaN
    /\ cs_pc' = "return"
    /\ UNCHANGED <<cs_fn, option_chain, price, idx, closest_strike,
                   min_difference, chosen_bid>>
    /\ UNCHANGED notCs

NextCs ==
    \/ CsRequestRaises
    \/ CsNoOptions
    \/ CsChainArrives
    \/ CsSkipFiltered
    \/ CsCompare
    \/ CsCompareRaises
    \/ CsReturn

SpecCs == InitCs /\ [][NextCs]_vars

\* =====================================================================
\* get_option_by_target_price (options.py)
\* =====================================================================
\* A contract is identified by its strike: the chain has one trading class, so
\* one Option is built per strike (lines 163-173).
\* What the price field the function reads (ask for puts, bid for calls) can hold.
OptionQuotes ==
    {Num(2 * q) : q \in 1..MaxQuote} \cup {Num(0), NaN, MinusOne, Inf, None}
\* Target prices, every half point up to the largest quote.
TargetPrices == {Num(h) : h \in 1..(2 * MaxQuote)}

\* Python's x <= y on floats: False when either side is NaN.
PyLessEq(x, y) == x.k = "num" /\ y.k = "num" /\ x.v <= y.v

\* lines 146-149: the strikes of the chain on the requested side of the ATM strike.
StrikesOnSide(chain_strikes, r, atm) ==
    IF r = "P" THEN {k \in chain_strikes : PyLessEq(k, atm)}
    ELSE IF r = "C" THEN {k \in chain_strikes : PyLessEq(atm, k)}
    ELSE {}

\* sorted(S) for a set of strikes (line 159).
RECURSIVE Sorted(_)
Sorted(S) ==
    IF S = {} THEN <<>>
    ELSE LET lo == CHOOSE x \in S : \A y \in S : x.v <= y.v
         IN  <<lo>> \o Sorted(S \ {lo})

\* The subsequences of a sequence: what qualifyContracts can hand back (the
\* contracts it could qualify, in request order).
RECURSIVE SubSeqs(_)
SubSeqs(q) ==
    IF q = <<>> THEN {<<>>}
    ELSE LET rest == SubSeqs(Tail(q))
         IN  rest \cup {<<Head(q)>> \o r : r \in rest}

\* The price field the function reads of a ticker (lines 192-195).
ReadPrice(t, r) == IF r = "P" THEN t.ask ELSE t.bid

\* Mutant of ValidPrice: only infinity is refused; 0.0 and -1.0 pass.
ValidPrice_NotInfOnly(q) == PyNe(q, Inf) /\ q.k = "num"

\* lines 192, 194: price != float('inf') and price > 0, for a float price.
ValidPrice(q) == PyNe(q, Inf) /\ q.k \in {"num", "inf"} /\ (q.k = "num" => q.v > 0)

\* lines 190-195: the list valid_options.
RECURSIVE ValidOptions(_, _)
ValidOptions(ts, r) ==
    IF ts = <<>> THEN <<>>
    ELSE LET t == Head(ts)
             rest == ValidOptions(Tail(ts), r)
         IN  IF r \in {"P", "C"} /\ ValidPrice(ReadPrice(t, r))
             THEN <<[contract |-> t.strike, price |-> ReadPrice(t, r)]>> \o rest
             ELSE rest

\* abs(price - target_price) of two numbers, in halves.
PriceDiff(q, target) == IF q.v >= target.v THEN q.v - target.v ELSE target.v - q.v

\* lines 205, 208: min(abs(price - target_price) for ... in valid_options)
MinDiff(opts, target) ==
    LET diffs == {PriceDiff(opts[i].price, target) : i \in 1..Len(opts)}
    IN  CHOOSE d \in diffs : \A e \in diffs : d <= e

\* lines 206, 209: the options at the minimum difference, in list order.
RECURSIVE ClosestOptions(_, _, _)
ClosestOptions(opts, target, d) ==
    IF opts = <<>> THEN <<>>
    ELSE LET rest == ClosestOptions(Tail(opts), target, d)
         IN  IF PriceDiff(Head(opts).price, target) = d
             THEN <<Head(opts)>> \o rest
             ELSE rest

\* list.sort(key=strike, reverse=...): stable, equal keys keep their order.
RECURSIVE InsertByStrike(_, _, _)
InsertByStrike(x, sorted, reverse) ==
    IF sorted = <<>> THEN <<x>>
    ELSE LET h == Head(sorted)
             before == IF reverse THEN h.contract.v >= x.contract.v
                       ELSE h.contract.v <= x.contract.v
         IN  IF before THEN <<h>> \o InsertByStrike(x, Tail(sorted), reverse)
             ELSE <<x>> \o sorted

RECURSIVE SortByStrike(_, _)
SortByStrike(opts, reverse) ==
    IF opts = <<>> THEN <<>>
    ELSE InsertByStrike(opts[Len(opts)],
                        SortByStrike(SubSeq(opts, 1, Len(opts) - 1), reverse),
                        reverse)

\* lines 214-217: reverse=True for puts, reverse=False otherwise.
SortReverse(r) == r = "P"

\* lines 204-220: the option selected among valid_options.
SelectedOption(opts, r, target) ==
    LET closest_options == ClosestOptions(opts, target, MinDiff(opts, target))
    IN  SortByStrike(closest_options, SortReverse(r))[1]

NoneNone == [option |-> None, price |-> None]

InitTp ==
    /\ tp_pc = "chains"
    /\ right \in {"P", "C"}
    /\ atm_strike \in Strikes \cup {NaN}
    /\ target_price \in TargetPrices
    /\ TpLocals
    /\ MidIdle
    /\ CsIdle
    /\ CpIdle
    /\ CmIdle
    /\ OrdIdle
    /\ BagIdle
    /\ IbIdle
    /\ MainIdle

\* lines 133-139: reqSecDefOptParams raises; (None, None) is returned.
TpChainsRaise ==
    /\ tp_pc = "chains"
    /\ tp_ret' = NoneNone
    /\ tp_pc' = "return"
    /\ UNCHANGED <<right, atm_strike, target_price, all_strikes,
                   qualified_contracts, tickers, valid_options>>
    /\ UNCHANGED notTp

\* lines 134-152: the chains arrive; the strikes of the chains listing the
\* expiry are collected and filtered against the ATM strike.
TpCollectStrikes ==
    /\ tp_pc = "chains"
    /\ \E chain_strikes \in SUBSET Strikes :
          all_strikes' = StrikesOnSide(chain_strikes, right, atm_strike)
    /\ tp_pc' = "strikes"
    /\ UNCHANGED <<right, atm_strike, target_price, qualified_contracts, tickers,
                   valid_options, tp_ret>>
    /\ UNCHANGED notTp

\* lines 154-156
TpNoStrikes ==
    /\ tp_pc = "strikes"
    /\ all_strikes = {}
    /\ tp_ret' = NoneNone
    /\ tp_pc' = "return"
    /\ UNCHANGED <<right, atm_strike, target_price, all_strikes,
                   qualified_contracts, tickers, valid_options>>
    /\ UNCHANGED notTp

\* lines 159-178: the contracts are built in ascending strike order and
\* qualified; the broker hands back those it could qualify.
TpQualify ==
    /\ tp_pc = "strikes"
    /\ all_strikes # {}
    /\ qualified_contracts' \in SubSeqs(Sorted(all_strikes))
    /\ tp_pc' = "qualified"
    /\ UNCHANGED <<right, atm_strike, target_price, all_strikes, tickers,
                   valid_options, tp_ret>>
    /\ UNCHANGED notTp

\* lines 177, 185: qualifyContracts or reqTickers raises; nothing catches it.
TpBrokerRaises ==
    /\ \/ tp_pc = "strikes" /\ all_strikes # {}
       \/ tp_pc = "qualified" /\ qualified_contracts # <<>>
    /\ tp_pc' = "raised"
    /\ UNCHANGED <<right, atm_strike, target_price, all_strikes,
                   qualified_contracts, tickers, valid_options, tp_ret>>
    /\ UNCHANGED notTp

\* lines 180-182
TpNoneQualified ==
    /\ tp_pc = "qualified"
    /\ qualified_contracts = <<>>
    /\ tp_ret' = NoneNone
    /\ tp_pc' = "return"
    /\ UNCHANGED <<right, atm_strike, target_price, all_strikes,
                   qualified_contracts, tickers, valid_options>>
    /\ UNCHANGED notTp

\* lines 185-186: one ticker per qualified contract, in order. Only the field
\* the function reads for this right varies; the other stays NaN.
TpTickers ==
    /\ tp_pc = "qualified"
    /\ qualified_contracts # <<>>
    /\ \E quotes \in [1..Len(qualified_contracts) -> OptionQuotes] :
          tickers' = [i \in 1..Len(qualified_contracts) |->
                        [strike |-> qualified_contracts[i],
                         ask |-> IF right = "P" THEN quotes[i] ELSE NaN,
                         bid |-> IF right = "C" THEN quotes[i] ELSE NaN]]
    /\ tp_pc' = "tickers"
    /\ UNCHANGED <<right, atm_strike, target_price, all_strikes,
                   qualified_contracts, valid_options, tp_ret>>
    /\ UNCHANGED notTp

\* lines 190-195 with a price that is None: None > 0 raises TypeError, which
\* nothing catches.
TpFilterRaises ==
    /\ tp_pc = "tickers"
    /\ \E i \in 1..Len(tickers) : IsNone(ReadPrice(tickers[i], right))
    /\ tp_pc' = "raised"
    /\ UNCHANGED <<right, atm_strike, target_price, all_strikes,
                   qualified_contracts, tickers, valid_options, tp_ret>>
    /\ UNCHANGED notTp

\* lines 190-195
TpFilter ==
    /\ tp_pc = "tickers"
    /\ \A i \in 1..Len(tickers) : ~IsNone(ReadPrice(tickers[i], right))
    /\ valid_options' = ValidOptions(tickers, right)
    /\ tp_pc' = "valid"
    /\ UNCHANGED <<right, atm_strike, target_price, all_strikes,
                   qualified_contracts, tickers, tp_ret>>
    /\ UNCHANGED notTp

\* lines 199-201
TpNoValid ==
    /\ tp_pc = "valid"
    /\ valid_options = <<>>
    /\ tp_ret' = NoneNone
    /\ tp_pc' = "return"
    /\ UNCHANGED <<right, atm_strike, target_price, all_strikes,
                   qualified_contracts, tickers, valid_options>>
    /\ UNCHANGED notTp

\* lines 203-224
TpSelect ==
    /\ tp_pc = "valid"
    /\ valid_options # <<>>
    /\ LET selected == SelectedOption(valid_options, right, target_price)
       IN  tp_ret' = [option |-> selected.contract, price |-> selected.price]
    /\ tp_pc' = "return"
    /\ UNCHANGED <<right, atm_strike, target_price, all_strikes,
                   qualified_contracts, tickers, valid_options>>
    /\ UNCHANGED notTp

NextTp ==
    \/ TpChainsRaise
    \/ TpCollectStrikes
    \/ TpNoStrikes
    \/ TpQualify
    \/ TpBrokerRaises
    \/ TpNoneQualified
    \/ TpTickers
    \/ TpFilterRaises
    \/ TpFilter
    \/ TpNoValid
    \/ TpSelect

SpecTp == InitTp /\ [][NextTp]_vars

\* =====================================================================
\* get_combo_prices (market_data, imported by main.py line 5; its body is not
\* among the sources, so it is modelled from section 4.3 of the specification)
\* =====================================================================
\* Tick sizes, in halves: 1.0 and 2.0.
TickSizes == {2, 4}
\* Leg ratios.
Ratios == {1, 2}

\* Mutant of RoundHalfEven: the quotient is always rounded up to the next integer.
RoundHalfEven_NextUp(n, d) == (n \div d) + 1

\* round(n / d) for integers n and d > 0, as Python rounds: half to even.
RoundHalfEven(n, d) ==
    LET q == n \div d
        r == n % d
    IN  IF 2 * r < d THEN q
        ELSE IF 2 * r > d THEN q + 1
        ELSE IF q % 2 = 0 THEN q ELSE q + 1

\* round(x / tick) * tick on a number x in halves.
RoundToTick(x, tick) == Num(RoundHalfEven(x.v, tick) * tick)

\* A leg's quotes: positive, bid <= ask when both are quoted; NaN is a missing
\* quote.
ComboQuotes == (Quotes \ {Num(0)}) \cup {NaN}
ComboLegs ==
    {l \in [action : {"BUY", "SELL"}, ratio : Ratios,
            bid : ComboQuotes, ask : ComboQuotes] :
        (l.bid.k = "num" /\ l.ask.k = "num") => l.bid.v <= l.ask.v}

\* Mutant of ComboSign: a bought leg counts +1 and a sold leg -1.
ComboSign_BuyPositive(action) == IF action = "SELL" THEN -1 ELSE 1

\* Section 4.3: +1 for a held/sold leg, -1 for a bought leg.
ComboSign(action) == IF action = "SELL" THEN 1 ELSE -1

\* Section 4.3: the signed, ratio-scaled contribution of one quote; a missing
\* quote contributes zero.
Contribution(leg, quote) ==
    IF quote.k = "num" THEN ComboSign(leg.action) * leg.ratio * quote.v ELSE 0

InitCp ==
    /\ cp_pc = "for"
    /\ cp_legs \in UNION {[1..n -> ComboLegs] : n \in 0..MaxComboLegs}
    /\ cp_tick \in TickSizes
    /\ CpLocals
    /\ MidIdle
    /\ CsIdle
    /\ TpIdle
    /\ CmIdle
    /\ OrdIdle
    /\ BagIdle
    /\ IbIdle
    /\ MainIdle

\* One leg is added to the aggregate bid and the aggregate ask.
CpAddLeg ==
    /\ cp_pc = "for"
    /\ cp_i <= Len(cp_legs)
    /\ total_bid' = Num(total_bid.v + Contribution(cp_legs[cp_i], cp_legs[cp_i].bid))
    /\ total_ask' = Num(total_ask.v + Contribution(cp_legs[cp_i], cp_legs[cp_i].ask))
    /\ cp_i' = cp_i + 1
    /\ UNCHANGED <<cp_pc, cp_legs, cp_tick, cp_ret>>
    /\ UNCHANGED notCp

\* The mid is the average of the aggregates; the triple is rounded to the tick.
CpReturn ==
    /\ cp_pc = "for"
    /\ cp_i > Len(cp_legs)
    /\ cp_ret' = [bid |-> RoundToTick(total_bid, cp_tick),
                  mid |-> RoundToTick(Num((total_bid.v + total_ask.v) \div 2), cp_tick),
                  ask |-> RoundToTick(total_ask, cp_tick)]
    /\ cp_pc' = "return"
    /\ UNCHANGED <<cp_legs, cp_tick, cp_i, total_bid, total_ask>>
    /\ UNCHANGED notCp

NextCp ==
    \/ CpAddLeg
    \/ CpReturn

SpecCp == InitCp /\ [][NextCp]_vars

\* =====================================================================
\* calc_combo_model_price (market_data.py)
\* =====================================================================
\* ib.reqMarketDataType arguments: real-time (original_data_type, line 79),
\* the type set at line 111, and theoretical prices (lines 80, 126).
original_data_type == 1
HistoricalType == 3
TheoreticalType == 4

\* What ticker.modelGreeks.optPrice can hold when the greeks arrive in time.
ModelPrices == {Num(2), Num(4), NaN}
\* What bid and ask of the real-time ticker can hold after the one-second wait.
LegQuotes == {Num(2), Num(4), None, NaN, MinusOne}

\* isinstance(x, float), for 'N/A' (a None quote, lines 105-106) or a float.
IsFloat(x) == x.k \in {"num", "NaN", "inf"}

\* line 109: bid == -1 and ask == -1
BothSentinel(t) == PyEq(t.bid, MinusOne) /\ PyEq(t.ask, MinusOne)

\* line 128: isinstance(bid, float) and isinstance(ask, float)
MidpointBranch(t) == IsFloat(t.bid) /\ IsFloat(t.ask)

\* x * n for a float x and an integer n
PyTimes(x, n) == IF isnan(x) THEN NaN ELSE Num(x.v * n)
\* x + y on floats
PyPlus(x, y) == IF isnan(x) \/ isnan(y) THEN NaN ELSE Num(x.v + y.v)

\* Mutant of LegPrice: the price of a sold leg is not negated.
LegPrice_NoSign(p, leg) == PyTimes(p, leg.ratio)

\* lines 138-140: the leg's signed, ratio-scaled price.
LegPrice(p, leg) ==
    IF leg.action = "SELL" THEN PyTimes(PyTimes(p, leg.ratio), -1)
    ELSE PyTimes(p, leg.ratio)

StrategyLegs == [action : {"BUY", "SELL"}, ratio : Ratios]

InitCm ==
    /\ cm_pc = "for"
    /\ strategy_legs \in UNION {[1..n -> StrategyLegs] : n \in 0..MaxLegs}
    /\ min_tick \in TickSizes
    /\ market_data_type = TheoreticalType
    /\ CmLocals
    /\ MidIdle
    /\ CsIdle
    /\ TpIdle
    /\ CpIdle
    /\ OrdIdle
    /\ BagIdle
    /\ IbIdle
    /\ MainIdle

\* lines 83-96: the leg is qualified, market data is requested, and the
\* model greeks arrive within max_wait_time with an optPrice.
CmModelPrice ==
    /\ cm_pc = "for"
    /\ leg_no <= Len(strategy_legs)
    /\ opened' = opened + 1
    /\ first_request_type' = market_data_type
    /\ \E p \in ModelPrices : opt_price' = p
    /\ model_arrived' = TRUE
    /\ cm_ticker' = NoQuotes
    /\ hist_asked' = FALSE
    /\ cm_pc' = "price"
    /\ UNCHANGED <<strategy_legs, min_tick, leg_no, total_model_price,
                   market_data_type, cancelled, leg_log, leg_prices, cm_ret>>
    /\ UNCHANGED notCm

\* lines 83-106: no optPrice after the bounded wait (no greeks, or an optPrice
\* of None); the data type is switched to real-time, market data is requested
\* a second time and bid and ask are read after one second.
CmRealTime ==
    /\ cm_pc = "for"
    /\ leg_no <= Len(strategy_legs)
    /\ opened' = opened + 2
    /\ first_request_type' = market_data_type
    /\ opt_price' = None
    /\ model_arrived' = FALSE
    /\ market_data_type' = original_data_type
    /\ \E b \in LegQuotes, a \in LegQuotes : cm_ticker' = [bid |-> b, ask |-> a]
    /\ hist_asked' = FALSE
    /\ cm_pc' = "fallback"
    /\ UNCHANGED <<strategy_legs, min_tick, leg_no, total_model_price,
                   cancelled, leg_log, leg_prices, cm_ret>>
    /\ UNCHANGED notCm

\* lines 84-85, 102: qualifyContracts or reqMktData raises; nothing catches it.
CmBrokerRaises ==
    /\ cm_pc = "for"
    /\ leg_no <= Len(strategy_legs)
    /\ cm_pc' = "raised"
    /\ UNCHANGED <<strategy_legs, min_tick, leg_no, model_arrived, cm_ticker,
                   opt_price, total_model_price, market_data_type,
                   first_request_type, hist_asked, opened, cancelled, leg_log,
                   leg_prices, cm_ret>>
    /\ UNCHANGED notCm

\* lines 109-120, 126: both sides are -1; the historical request answers with
\* bars, the last close is the price, and the type is set back to theoretical.
CmHistClose ==
    /\ cm_pc = "fallback"
    /\ BothSentinel(cm_ticker)
    /\ hist_asked' = TRUE
    /\ \E close \in Quotes : opt_price' = close
    /\ market_data_type' = TheoreticalType
    /\ cm_pc' = "price"
    /\ UNCHANGED <<strategy_legs, min_tick, leg_no, model_arrived, cm_ticker,
                   total_model_price, first_request_type, opened, cancelled,
                   leg_log, leg_prices, cm_ret>>
    /\ UNCHANGED notCm

\* lines 109-123: both sides are -1 and there are no bars; continue.
CmHistNoBars ==
    /\ cm_pc = "fallback"
    /\ BothSentinel(cm_ticker)
    /\ hist_asked' = TRUE
    /\ market_data_type' = HistoricalType
    /\ leg_log' = Append(leg_log, "skipped")
    /\ leg_prices' = Append(leg_prices, None)
    /\ leg_no' = leg_no + 1
    /\ cm_pc' = "for"
    /\ UNCHANGED <<strategy_legs, min_tick, model_arrived, cm_ticker, opt_price,
                   total_model_price, first_request_type, opened, cancelled,
                   cm_ret>>
    /\ UNCHANGED notCm

\* lines 109-117: both sides are -1 and reqHistoricalData raises; nothing
\* catches it.
CmHistRaises ==
    /\ cm_pc = "fallback"
    /\ BothSentinel(cm_ticker)
    /\ hist_asked' = TRUE
    /\ market_data_type' = HistoricalType
    /\ cm_pc' = "raised"
    /\ UNCHANGED <<strategy_legs, min_tick, leg_no, model_arrived, cm_ticker,
                   opt_price, total_model_price, first_request_type, opened,
                   cancelled, leg_log, leg_prices, cm_ret>>
    /\ UNCHANGED notCm

\* lines 128-131: bid and ask are floats; the midpoint is the price.
CmMidpoint ==
    /\ cm_pc = "fallback"
    /\ ~BothSentinel(cm_ticker)
    /\ MidpointBranch(cm_ticker)
    /\ opt_price' = MidPrice(cm_ticker.bid, cm_ticker.ask)
    /\ cm_pc' = "price"
    /\ UNCHANGED <<strategy_legs, min_tick, leg_no, model_arrived, cm_ticker,
                   total_model_price, market_data_type, first_request_type,
                   hist_asked, opened, cancelled, leg_log, leg_prices, cm_ret>>
    /\ UNCHANGED notCm

\* lines 132-135: neither branch applies; continue.
CmNoQuote ==
    /\ cm_pc = "fallback"
    /\ ~BothSentinel(cm_ticker)
    /\ ~MidpointBranch(cm_ticker)
    /\ leg_log' = Append(leg_log, "skipped")
    /\ leg_prices' = Append(leg_prices, None)
    /\ leg_no' = leg_no + 1
    /\ cm_pc' = "for"
    /\ UNCHANGED <<strategy_legs, min_tick, model_arrived, cm_ticker, opt_price,
                   total_model_price, market_data_type, first_request_type,
                   hist_asked, opened, cancelled, cm_ret>>
    /\ UNCHANGED notCm

\* The source the leg's price came from.
PriceSource ==
    IF model_arrived THEN "model" ELSE IF hist_asked THEN "close" ELSE "mid"

\* lines 137-146: the leg's price is added to the total and the leg's
\* (latest) ticker is cancelled.
CmAccumulate ==
    /\ cm_pc = "price"
    /\ total_model_price' =
          PyPlus(total_model_price, LegPrice(opt_price, strategy_legs[leg_no]))
    /\ cancelled' = cancelled + 1
    /\ leg_log' = Append(leg_log, PriceSource)
    /\ leg_prices' = Append(leg_prices, opt_price)
    /\ leg_no' = leg_no + 1
    /\ cm_pc' = "for"
    /\ UNCHANGED <<strategy_legs, min_tick, model_arrived, cm_ticker, opt_price,
                   market_data_type, first_request_type, hist_asked, opened,
                   cm_ret>>
    /\ UNCHANGED notCm

\* lines 148-156: NaN when the total is NaN, else the total rounded to min_tick.
CmReturn ==
    /\ cm_pc = "for"
    /\ leg_no > Len(strategy_legs)
    /\ cm_ret' = IF isnan(total_model_price) THEN NaN
                 ELSE RoundToTick(total_model_price, min_tick)
    /\ cm_pc' = "return"
    /\ UNCHANGED <<strategy_legs, min_tick, leg_no, model_arrived, cm_ticker,
                   opt_price, total_model_price, market_data_type,
                   first_request_type, hist_asked, opened, cancelled, leg_log,
                   leg_prices>>
    /\ UNCHANGED notCm

NextCm ==
    \/ CmModelPrice
    \/ CmRealTime
    \/ CmBrokerRaises
    \/ CmHistClose
    \/ CmHistNoBars
    \/ CmHistRaises
    \/ CmMidpoint
    \/ CmNoQuote
    \/ CmAccumulate
    \/ CmReturn

SpecCm == InitCm /\ [][NextCm]_vars

\* =====================================================================
\* submit_adaptive_order_trailing_stop (orders.py)
\* =====================================================================
\* Largest quantity the caller orders.
MaxQuantity == 2
\* Largest order id the broker client hands out.
MaxOrderId == 2

\* What the caller passes as action and as order_type.
Actions == {"BUY", "SELL", "HOLD"}
OrderTypes == {"MKT", "LMT", "STP"}
\* The exchange of the contract the caller passes in.
Exchanges == {"CBOE", "SMART"}
\* The default of Order.lmtPrice and Order.auxPrice.
Unset == [k |-> "unset", v |-> 0]

\* line 52: action in ["BUY", "SELL"]
ValidAction(a) == a \in {"BUY", "SELL"}
\* line 57: order_type in ["MKT", "LMT"]
ValidOrderType(t) == t \in {"MKT", "LMT"}

\* Mutant of OppositeAction: the child repeats the primary's action.
OppositeAction_Same(a) == a

\* line 88: 'SELL' if action == 'BUY' else 'BUY'
OppositeAction(a) == IF a = "BUY" THEN "SELL" ELSE "BUY"

\* lines 62-74: the primary adaptive order, before it is placed.
PrimaryOrder ==
    [orderType |-> order_type, action |-> ord_action,
     totalQuantity |-> quantity, algoStrategy |-> "Adaptive",
     lmtPrice |-> IF order_type = "LMT" THEN limit_price ELSE Unset,
     auxPrice |-> Unset, parentId |-> 0, transmit |-> FALSE, orderId |-> 0]

\* Mutant of TrailingStopOrder: the child is transmitted whatever is_live says.
TrailingStopOrder_AlwaysTransmits ==
    [orderType |-> "TRAIL", action |-> OppositeAction(ord_action),
     totalQuantity |-> quantity, algoStrategy |-> "",
     lmtPrice |-> Unset, auxPrice |-> stop_loss_amt,
     parentId |-> primary_order.orderId, transmit |-> TRUE, orderId |-> 0]

\* lines 86-94: the trailing stop, before it is placed.
TrailingStopOrder ==
    [orderType |-> "TRAIL", action |-> OppositeAction(ord_action),
     totalQuantity |-> quantity, algoStrategy |-> "",
     lmtPrice |-> Unset, auxPrice |-> stop_loss_amt,
     parentId |-> primary_order.orderId, transmit |-> is_live, orderId |-> 0]

InitOrd ==
    /\ ord_pc = "start"
    /\ contract_exchange \in Exchanges
    /\ limit_price \in Quotes
    /\ ord_action \in Actions
    /\ order_type \in OrderTypes
    /\ quantity \in 1..MaxQuantity
    /\ stop_loss_amt \in Quotes
    /\ is_live \in BOOLEAN
    /\ OrdLocals
    /\ MidIdle
    /\ CsIdle
    /\ TpIdle
    /\ CpIdle
    /\ CmIdle
    /\ BagIdle
    /\ IbIdle
    /\ MainIdle

\* lines 49-54: the exchange is set to SMART, then the action is refused.
OrdInvalidAction ==
    /\ ord_pc = "start"
    /\ ~ValidAction(ord_action)
    /\ contract_exchange' = "SMART"
    /\ ord_ret' = None
    /\ ord_pc' = "return"
    /\ UNCHANGED <<limit_price, ord_action, order_type, quantity, stop_loss_amt,
                   is_live, primary_order, trailing_stop_order, placed>>
    /\ UNCHANGED notOrd

\* lines 49-59: the exchange is set to SMART, then the order type is refused.
OrdInvalidType ==
    /\ ord_pc = "start"
    /\ ValidAction(ord_action)
    /\ ~ValidOrderType(order_type)
    /\ contract_exchange' = "SMART"
    /\ ord_ret' = None
    /\ ord_pc' = "return"
    /\ UNCHANGED <<limit_price, ord_action, order_type, quantity, stop_loss_amt,
                   is_live, primary_order, trailing_stop_order, placed>>
    /\ UNCHANGED notOrd

\* lines 49-78: the primary order is built and placed; after the one-second
\* wait it carries the id the client gave it, or still 0.
OrdPlacePrimary ==
    /\ ord_pc = "start"
    /\ ValidAction(ord_action)
    /\ ValidOrderType(order_type)
    /\ contract_exchange' = "SMART"
    /\ \E id \in 0..MaxOrderId :
          /\ primary_order' = [PrimaryOrder EXCEPT !.orderId = id]
          /\ placed' = Append(placed, [PrimaryOrder EXCEPT !.orderId = id])
    /\ ord_pc' = "primary"
    /\ UNCHANGED <<limit_price, ord_action, order_type, quantity, stop_loss_amt,
                   is_live, trailing_stop_order, ord_ret>>
    /\ UNCHANGED notOrd

\* lines 49-77: ib.placeOrder raises on the primary; nothing catches it.
OrdPrimaryRaises ==
    /\ ord_pc = "start"
    /\ ValidAction(ord_action)
    /\ ValidOrderType(order_type)
    /\ contract_exchange' = "SMART"
    /\ primary_order' = PrimaryOrder
    /\ ord_pc' = "raised"
    /\ UNCHANGED <<limit_price, ord_action, order_type, quantity, stop_loss_amt,
                   is_live, trailing_stop_order, placed, ord_ret>>
    /\ UNCHANGED notOrd

\* lines 81-83: the primary order has no id.
OrdPrimaryNoId ==
    /\ ord_pc = "primary"
    /\ primary_order.orderId = 0
    /\ ord_ret' = None
    /\ ord_pc' = "return"
    /\ UNCHANGED <<contract_exchange, limit_price, ord_action, order_type,
                   quantity, stop_loss_amt, is_live, primary_order,
                   trailing_stop_order, placed>>
    /\ UNCHANGED notOrd

\* lines 81-105: the trailing stop is built as the primary's child and placed;
\* it gets an id of its own, or stays at 0; the primary order is returned.
OrdPlaceChild ==
    /\ ord_pc = "primary"
    /\ primary_order.orderId # 0
    /\ \E id \in (0..MaxOrderId) \ {primary_order.orderId} :
          /\ trailing_stop_order' = [TrailingStopOrder EXCEPT !.orderId = id]
          /\ placed' = Append(placed, [TrailingStopOrder EXCEPT !.orderId = id])
    /\ ord_ret' = primary_order
    /\ ord_pc' = "return"
    /\ UNCHANGED <<contract_exchange, limit_price, ord_action, order_type,
                   quantity, stop_loss_amt, is_live, primary_order>>
    /\ UNCHANGED notOrd

\* lines 81-97: ib.placeOrder raises on the trailing stop; nothing catches it.
OrdChildRaises ==
    /\ ord_pc = "primary"
    /\ primary_order.orderId # 0
    /\ trailing_stop_order' = TrailingStopOrder
    /\ ord_pc' = "raised"
    /\ UNCHANGED <<contract_exchange, limit_price, ord_action, order_type,
                   quantity, stop_loss_amt, is_live, primary_order, placed,
                   ord_ret>>
    /\ UNCHANGED notOrd

NextOrd ==
    \/ OrdInvalidAction
    \/ OrdInvalidType
    \/ OrdPlacePrimary
    \/ OrdPrimaryRaises
    \/ OrdPrimaryNoId
    \/ OrdPlaceChild
    \/ OrdChildRaises

SpecOrd == InitOrd /\ [][NextOrd]_vars

\* =====================================================================
\* iron_condor, put_credit_spread, call_credit_spread (strategies.py),
\* qualify_contract (qualify.py) and create_bag (orders.py)
\* =====================================================================
\* Largest contract id the broker assigns.
MaxConId == 2

Strategies == {"iron_condor", "put_credit_spread", "call_credit_spread"}

\* The option each qualify_contract call of the strategy asks for, in order
\* (strategies.py lines 25-66, 99-118, 152-171).
LegPlan ==
    CASE strategy = "put_credit_spread" ->
           <<[strike |-> short_strike, right |-> "P"],
             [strike |-> long_strike, right |-> "P"]>>
      [] strategy = "call_credit_spread" ->
           <<[strike |-> short_strike, right |-> "C"],
             [strike |-> long_strike, right |-> "C"]>>
      [] strategy = "iron_condor" ->
           <<[strike |-> short_strike, right |-> "P"],
             [strike |-> long_strike, right |-> "P"],
             [strike |-> short_strike, right |-> "C"],
             [strike |-> higher_strike, right |-> "C"]>>
      [] OTHER -> <<>>

\* The list actions (strategies.py lines 70, 122, 175).
LegActions ==
    CASE strategy = "iron_condor" -> <<"SELL", "BUY", "SELL", "BUY">>
      [] OTHER -> <<"BUY", "SELL">>

\* The list ratios (strategies.py lines 71, 123, 176).
LegRatios ==
    CASE strategy = "iron_condor" -> <<1, 1, 1, 1>>
      [] OTHER -> <<1, 1>>

\* len(zip(a, b, c)): the shortest of the three lists.
ZipLen(a, b, c) ==
    LET m == IF Len(a) <= Len(b) THEN Len(a) ELSE Len(b)
    IN  IF m <= Len(c) THEN m ELSE Len(c)

\* create_bag (orders.py lines 142-161): one ComboLeg per zipped leg, carrying
\* the leg's conId as it is.
create_bag(ls, actions, ratios) ==
    [secType |-> "BAG",
     comboLegs |-> [i \in 1..ZipLen(ls, actions, ratios) |->
                      [conId |-> ls[i].conId, action |-> actions[i],
                       ratio |-> ratios[i], openClose |-> 0]]]

\* strategies.py lines 126, 179: the (leg, action, ratio) tuples.
StrategyTuples(ls, actions, ratios) ==
    [i \in 1..ZipLen(ls, actions, ratios) |->
       [leg |-> ls[i], action |-> actions[i], ratio |-> ratios[i]]]

InitBag ==
    /\ bag_pc = "qualify"
    /\ strategy \in Strategies
    /\ short_strike \in Strikes
    /\ long_strike \in Strikes
    /\ higher_strike \in IF strategy = "iron_condor" THEN Strikes ELSE {None}
    /\ BagLocals
    /\ MidIdle
    /\ CsIdle
    /\ TpIdle
    /\ CpIdle
    /\ CmIdle
    /\ OrdIdle
    /\ IbIdle
    /\ MainIdle

\* qualify.py lines 18-32: the Option is built and ib.qualifyContracts
\* returns; the contract carries the conId the broker gave it, or still 0 when
\* the broker did not know the contract. The contract is returned either way.
BagQualifyLeg ==
    /\ bag_pc = "qualify"
    /\ Len(legs) < Len(LegPlan)
    /\ \E id \in 0..MaxConId :
          legs' = Append(legs, [strike |-> LegPlan[Len(legs) + 1].strike,
                                right |-> LegPlan[Len(legs) + 1].right,
                                conId |-> id])
    /\ UNCHANGED <<bag_pc, strategy, short_strike, long_strike, higher_strike,
                   bag_ret>>
    /\ UNCHANGED notBag

\* qualify.py lines 19-20, 33-35: qualify_contract raises (a ValueError for a
\* missing field, or the broker's exception, re-raised); the strategy function
\* does not catch it.
BagQualifyRaises ==
    /\ bag_pc = "qualify"
    /\ Len(legs) < Len(LegPlan)
    /\ bag_pc' = "raised"
    /\ UNCHANGED <<strategy, short_strike, long_strike, higher_strike, legs,
                   bag_ret>>
    /\ UNCHANGED notBag

\* strategies.py lines 69-77, 121-130, 174-183: the BAG is created from the
\* legs and returned with the legs (iron_condor) or the strategy tuples.
BagReturn ==
    /\ bag_pc = "qualify"
    /\ Len(legs) = Len(LegPlan)
    /\ bag_ret' =
          [bag |-> create_bag(legs, LegActions, LegRatios),
           legs |-> IF strategy = "iron_condor" THEN legs
                    ELSE StrategyTuples(legs, LegActions, LegRatios)]
    /\ bag_pc' = "return"
    /\ UNCHANGED <<strategy, short_strike, long_strike, higher_strike, legs>>
    /\ UNCHANGED notBag

NextBag ==
    \/ BagQualifyLeg
    \/ BagQualifyRaises
    \/ BagReturn

SpecBag == InitBag /\ [][NextBag]_vars

\* =====================================================================
\* The connection loop of ib_instance.py
\* =====================================================================
\* ib_instance.py line 15: max_retries
ib_max_retries == 5
\* ib_instance.py line 16: retry_interval, in seconds
ib_retry_interval == 2
\* Longest time, in seconds, an ib.connect call takes to return or raise.
MaxConnectTime == 1

InitIb ==
    /\ ib_pc = "for"
    /\ IbLocals
    /\ MidIdle
    /\ CsIdle
    /\ TpIdle
    /\ CpIdle
    /\ CmIdle
    /\ OrdIdle
    /\ BagIdle
    /\ MainIdle

\* lines 19-25: ib.connect returns; break.
IbConnects ==
    /\ ib_pc = "for"
    /\ ib_attempt < ib_max_retries
    /\ \E d \in 0..MaxConnectTime :
          /\ connect_log' = Append(connect_log,
                 [at |-> ib_now, end |-> ib_now + d, ok |-> TRUE])
          /\ ib_now' = ib_now + d
    /\ connected' = TRUE
    /\ ib_pc' = "done"
    /\ UNCHANGED ib_attempt
    /\ UNCHANGED notIb

\* Mutant of IbConnectFails: time.sleep is called after the last attempt too.
IbConnectFails_AlwaysSleeps ==
    /\ ib_pc = "for"
    /\ ib_attempt < ib_max_retries
    /\ \E d \in 0..MaxConnectTime :
          /\ connect_log' = Append(connect_log,
                 [at |-> ib_now, end |-> ib_now + d, ok |-> FALSE])
          /\ ib_now' = ib_now + d + ib_retry_interval
    /\ ib_attempt' = ib_attempt + 1
    /\ UNCHANGED <<ib_pc, connected>>
    /\ UNCHANGED notIb

\* lines 19-29: ib.connect raises; the error is logged and, unless this was
\* the last attempt, time.sleep(retry_interval) runs before the next one.
IbConnectFails ==
    /\ ib_pc = "for"
    /\ ib_attempt < ib_max_retries
    /\ \E d \in 0..MaxConnectTime :
          /\ connect_log' = Append(connect_log,
                 [at |-> ib_now, end |-> ib_now + d, ok |-> FALSE])
          /\ ib_now' = IF ib_attempt < ib_max_retries - 1
                       THEN ib_now + d + ib_retry_interval
                       ELSE ib_now + d
    /\ ib_attempt' = ib_attempt + 1
    /\ UNCHANGED <<ib_pc, connected>>
    /\ UNCHANGED notIb

\* Mutant of IbGivesUp: the module raises once the attempts are used up.
IbGivesUp_Raises ==
    /\ ib_pc = "for"
    /\ ib_attempt >= ib_max_retries
    /\ ib_pc' = "raised"
    /\ UNCHANGED <<ib_attempt, connected, ib_now, connect_log>>
    /\ UNCHANGED notIb

\* line 19: range(max_retries) is exhausted; the module body ends.
IbGivesUp ==
    /\ ib_pc = "for"
    /\ ib_attempt >= ib_max_retries
    /\ ib_pc' = "done"
    /\ UNCHANGED <<ib_attempt, connected, ib_now, connect_log>>
    /\ UNCHANGED notIb

NextIb ==
    \/ IbConnects
    \/ IbConnectFails
    \/ IbGivesUp

SpecIb == InitIb /\ [][NextIb]_vars

\* =====================================================================
\* main.py
\* =====================================================================
\* What get_current_mid_price returns: last (a quote or -1.0), a midpoint (a
\* number in halves, or NaN), a historical close, or None.
MidReturns ==
    {Num(h) : h \in 0..(2 * MaxQuote)} \cup {MinusOne, NaN, None}
\* What get_atm_strike returns: a strike of the chain, or NaN.
AtmReturns == Strikes \cup {NaN}
\* The mids get_combo_prices returns: whole numbers of either sign.
ComboMids == {Num(2 * q) : q \in (0 - MaxQuote)..MaxQuote}

\* abs(x) on a number
PyAbs(x) == Num(IF x.v < 0 THEN 0 - x.v ELSE x.v)

\* The strikes get_option_by_target_price can answer with for `r` around
\* `atm`: those that pass its ATM filter (options.py lines 144-150).
FoundStrikes(r, atm) ==
    {k \in Strikes : IF r = "P" THEN PyLessEq(k, atm) ELSE PyLessEq(atm, k)}

InitMain ==
    /\ main_pc = "start"
    /\ spx_min_tick \in TickSizes
    /\ MainLocals
    /\ MidIdle
    /\ CsIdle
    /\ TpIdle
    /\ CpIdle
    /\ CmIdle
    /\ OrdIdle
    /\ BagIdle
    /\ IbIdle

\* line 20: qualify_contract raises; nothing catches it.
MainQualifyRaises ==
    /\ main_pc = "start"
    /\ main_exc' = "Exception"
    /\ main_pc' = "crashed"
    /\ UNCHANGED <<current_mid, main_atm, lower_contract, higher_contract,
                   spx_min_tick, pcs_mid, ccs_mid, pcs_stop_loss_amt,
                   ccs_stop_loss_amt, orders_submitted>>
    /\ UNCHANGED notMain

\* lines 20-25: the underlying is qualified (the contract object is truthy)
\* and get_current_mid_price returns.
MainGetMid ==
    /\ main_pc = "start"
    /\ \E m \in MidReturns : current_mid' = m
    /\ main_pc' = "details"
    /\ UNCHANGED <<main_atm, lower_contract, higher_contract, spx_min_tick,
                   pcs_mid, ccs_mid, pcs_stop_loss_amt, ccs_stop_loss_amt,
                   orders_submitted, main_exc>>
    /\ UNCHANGED notMain

\* lines 27-28: the contract details arrive and minTick is read.
MainDetails ==
    /\ main_pc = "details"
    /\ main_pc' = "isnan"
    /\ UNCHANGED <<current_mid, main_atm, lower_contract, higher_contract,
                   spx_min_tick, pcs_mid, ccs_mid, pcs_stop_loss_amt,
                   ccs_stop_loss_amt, orders_submitted, main_exc>>
    /\ UNCHANGED notMain

\* lines 27-28: the list of contract details is empty; [0] raises.
MainNoDetails ==
    /\ main_pc = "details"
    /\ main_exc' = "IndexError"
    /\ main_pc' = "crashed"
    /\ UNCHANGED <<current_mid, main_atm, lower_contract, higher_contract,
                   spx_min_tick, pcs_mid, ccs_mid, pcs_stop_loss_amt,
                   ccs_stop_loss_amt, orders_submitted>>
    /\ UNCHANGED notMain

\* line 30: math.isnan(None) raises TypeError; nothing catches it.
MainMidIsNone ==
    /\ main_pc = "isnan"
    /\ IsNone(current_mid)
    /\ main_exc' = "TypeError"
    /\ main_pc' = "crashed"
    /\ UNCHANGED <<current_mid, main_atm, lower_contract, higher_contract,
                   spx_min_tick, pcs_mid, ccs_mid, pcs_stop_loss_amt,
                   ccs_stop_loss_amt, orders_submitted>>
    /\ UNCHANGED notMain

\* lines 30, 95: current_mid is NaN; the body is skipped and the session is
\* disconnected.
MainMidIsNaN ==
    /\ main_pc = "isnan"
    /\ ~IsNone(current_mid)
    /\ isnan(current_mid)
    /\ main_pc' = "done"
    /\ UNCHANGED <<current_mid, main_atm, lower_contract, higher_contract,
                   spx_min_tick, pcs_mid, ccs_mid, pcs_stop_loss_amt,
                   ccs_stop_loss_amt, orders_submitted, main_exc>>
    /\ UNCHANGED notMain

\* lines 30-32: current_mid is a number; get_atm_strike returns.
MainAtm ==
    /\ main_pc = "isnan"
    /\ ~IsNone(current_mid)
    /\ ~isnan(current_mid)
    /\ \E a \in AtmReturns : main_atm' = a
    /\ main_pc' = "lower"
    /\ UNCHANGED <<current_mid, lower_contract, higher_contract, spx_min_tick,
                   pcs_mid, ccs_mid, pcs_stop_loss_amt, ccs_stop_loss_amt,
                   orders_submitted, main_exc>>
    /\ UNCHANGED notMain

\* lines 34-38: get_option_by_target_price finds a put; its strike is read.
MainLowerFound ==
    /\ main_pc = "lower"
    /\ \E k \in FoundStrikes("P", main_atm) : lower_contract' = k
    /\ main_pc' = "higher"
    /\ UNCHANGED <<current_mid, main_atm, higher_contract, spx_min_tick,
                   pcs_mid, ccs_mid, pcs_stop_loss_amt, ccs_stop_loss_amt,
                   orders_submitted, main_exc>>
    /\ UNCHANGED notMain

\* lines 34-38: get_option_by_target_price returns (None, None);
\* lower_contract.strike raises AttributeError; nothing catches it.
MainLowerNone ==
    /\ main_pc = "lower"
    /\ lower_contract' = None
    /\ main_exc' = "AttributeError"
    /\ main_pc' = "crashed"
    /\ UNCHANGED <<current_mid, main_atm, higher_contract, spx_min_tick,
                   pcs_mid, ccs_mid, pcs_stop_loss_amt, ccs_stop_loss_amt,
                   orders_submitted>>
    /\ UNCHANGED notMain

\* lines 40-45: get_option_by_target_price finds a call; its strike is read.
MainHigherFound ==
    /\ main_pc = "higher"
    /\ \E k \in FoundStrikes("C", main_atm) : higher_contract' = k
    /\ main_pc' = "spreads"
    /\ UNCHANGED <<current_mid, main_atm, lower_contract, spx_min_tick,
                   pcs_mid, ccs_mid, pcs_stop_loss_amt, ccs_stop_loss_amt,
                   orders_submitted, main_exc>>
    /\ UNCHANGED notMain

\* lines 40-45: get_option_by_target_price returns (None, None);
\* higher_contract.strike raises AttributeError; nothing catches it.
MainHigherNone ==
    /\ main_pc = "higher"
    /\ higher_contract' = None
    /\ main_exc' = "AttributeError"
    /\ main_pc' = "crashed"
    /\ UNCHANGED <<current_mid, main_atm, lower_contract, spx_min_tick,
                   pcs_mid, ccs_mid, pcs_stop_loss_amt, ccs_stop_loss_amt,
                   orders_submitted>>
    /\ UNCHANGED notMain

\* lines 47-71: the strikes are printed, both spreads are built and priced,
\* and the stop-loss amounts are the absolute mids rounded to the tick.
MainSpreads ==
    /\ main_pc = "spreads"
    /\ \E p \in ComboMids, c \in ComboMids :
          /\ pcs_mid' = p
          /\ ccs_mid' = c
          /\ pcs_stop_loss_amt' = RoundToTick(PyAbs(p), spx_min_tick)
          /\ ccs_stop_loss_amt' = RoundToTick(PyAbs(c), spx_min_tick)
    /\ main_pc' = "submit"
    /\ UNCHANGED <<current_mid, main_atm, lower_contract, higher_contract,
                   spx_min_tick, orders_submitted, main_exc>>
    /\ UNCHANGED notMain

\* lines 58, 66: a leg's qualify_contract raises inside a spread function.
MainSpreadRaises ==
    /\ main_pc = "spreads"
    /\ main_exc' = "Exception"
    /\ main_pc' = "crashed"
    /\ UNCHANGED <<current_mid, main_atm, lower_contract, higher_contract,
                   spx_min_tick, pcs_mid, ccs_mid, pcs_stop_loss_amt,
                   ccs_stop_loss_amt, orders_submitted>>
    /\ UNCHANGED notMain

\* lines 74-95: both spreads are submitted and the session is disconnected.
MainSubmit ==
    /\ main_pc = "submit"
    /\ orders_submitted' = orders_submitted + 2
    /\ main_pc' = "done"
    /\ UNCHANGED <<current_mid, main_atm, lower_contract, higher_contract,
                   spx_min_tick, pcs_mid, ccs_mid, pcs_stop_loss_amt,
                   ccs_stop_loss_amt, main_exc>>
    /\ UNCHANGED notMain

NextMain ==
    \/ MainQualifyRaises
    \/ MainGetMid
    \/ MainDetails
    \/ MainNoDetails
    \/ MainMidIsNone
    \/ MainMidIsNaN
    \/ MainAtm
    \/ MainLowerFound
    \/ MainLowerNone
    \/ MainHigherFound
    \/ MainHigherNone
    \/ MainSpreads
    \/ MainSpreadRaises
    \/ MainSubmit

SpecMain == InitMain /\ [][NextMain]_vars

\* =====================================================================
\* Properties of get_current_mid_price
\* =====================================================================
\* The last attempt that evaluated a ticker has been decided and `ticker` is
\* the ticker it evaluated.
Decided ==
    /\ attempts_log # <<>>
    /\ attempts_log[Len(attempts_log)] # "mkt_raised"
    /\ mid_pc # "if"

Outcome == attempts_log[Len(attempts_log)]

ValidLast(t) == t.last.k \notin {"None", "NaN"}
Sentinel(x) == x.k = "num" /\ x.v = -2
Quoted(x) == x.k = "num" /\ x.v # -2

\* C1 as claimed: on every attempt the precedence is last, then midpoint, then
\* historical close: a valid last is always the value returned, the midpoint is
\* returned only when last is not valid and both sides are quoted and not -1,
\* and the close only when neither of the first two is usable.
C1_LastThenMidThenClose ==
    Decided =>
        /\ ValidLast(ticker) => (Outcome = "last" /\ mid_ret = ticker.last)
        /\ Outcome = "mid" =>
              ~ValidLast(ticker) /\ Quoted(ticker.bid) /\ Quoted(ticker.ask)
        /\ Outcome = "close" =>
              ~ValidLast(ticker) /\ ~(Quoted(ticker.bid) /\ Quoted(ticker.ask))

\* C1 amended: on every attempt last is returned exactly when last is valid and
\* bid or ask is the -1 sentinel; the midpoint (bid + ask) / 2 is returned
\* exactly when bid and ask are both not None and not -1, whether or not last is
\* valid and also when a side is NaN; the historical request is made exactly
\* when last is not valid and a side is None or -1, and its close is returned
\* only then; with a valid last, no side -1 and a side None nothing is returned
\* and the attempt is used up.
C1_MidBeforeLast ==
    Decided =>
        LET b == ticker.bid
            a == ticker.ask
            bothPresent == b.k # "None" /\ a.k # "None"
            someSentinel == Sentinel(b) \/ Sentinel(a)
        IN  /\ Outcome = "last" <=> (ValidLast(ticker) /\ someSentinel)
            /\ Outcome = "last" => mid_ret = ticker.last
            /\ Outcome = "mid" <=> (bothPresent /\ ~someSentinel)
            /\ Outcome = "mid" =>
                  mid_ret = IF b.k = "NaN" \/ a.k = "NaN" THEN NaN
                            ELSE Num((b.v + a.v) \div 2)
            /\ Outcome \in {"close", "nobars", "hist_raised"} <=>
                  (~ValidLast(ticker) /\ (~bothPresent \/ someSentinel))
            /\ Outcome = "close" => mid_ret \in Quotes
            /\ Outcome = "nobranch" <=>
                  (ValidLast(ticker) /\ ~bothPresent /\ ~someSentinel)

\* C1 witness: the midpoint was returned although last was valid.
C1_Witness ==
    /\ Decided
    /\ Outcome = "mid"
    /\ ValidLast(ticker)
    /\ ticker.last = Num(4)
    /\ mid_ret = Num(1)

\* C2 as claimed: when no source holds a usable number on any attempt, the
\* function returns None, never NaN or a number.
C2_UnavailableIsNone ==
    (mid_pc = "return" /\ ~usable_seen) => mid_ret = None

\* C3: at most max_retries attempts are made, each attempt issues its own
\* reqMktData request, consecutive requests are separated by the retry_interval
\* sleep (plus the in-attempt wait when the request answered), and the function
\* always reaches its return.
C3_BoundedRetries ==
    /\ attempt <= max_retries
    /\ Len(mktDataTimes) <= max_retries
    /\ Len(mktDataTimes) = Len(attempts_log) + (IF mid_pc = "if" THEN 1 ELSE 0)
    /\ Len(mktDataTimes) =
          attempt + (IF \/ mid_pc \in {"if", "retry"}
                        \/ /\ mid_pc = "return"
                           /\ attempts_log # <<>>
                           /\ Outcome \in {"last", "mid", "close", "nobars"}
                     THEN 1 ELSE 0)
    /\ \A i \in 1..(Len(mktDataTimes) - 1) :
          mktDataTimes[i + 1] - mktDataTimes[i] =
              IF attempts_log[i] = "mkt_raised" THEN retry_interval
              ELSE 2 * retry_interval
    /\ mid_pc = "return" \/ ENABLED NextMid

\* C3 witness: every retry was used, the first request raised, and None came back.
C3_Witness ==
    /\ mid_pc = "return"
    /\ max_retries = 3
    /\ Len(mktDataTimes) = 3
    /\ attempts_log[1] = "mkt_raised"
    /\ mid_ret = None

\* The outcomes of an attempt that use up one retry: no branch of the
\* if/elif chain matched, or reqMktData or reqHistoricalData raised.
ConsumesRetry(o) == o \in {"nobranch", "mkt_raised", "hist_raised"}

\* C25: an attempt in which the historical request gave no bars is the last:
\* the loop is left at once, no reqMktData request follows, attempt is not
\* incremented and None is returned, however many retries remain. An attempt
\* that matched no branch or raised uses up one retry; the function returns
\* after it only when attempt has reached max_retries, and otherwise the next
\* attempt can start.
C25_NoBarsLeavesLoop ==
    /\ \A i \in 1..Len(attempts_log) :
          /\ attempts_log[i] = "nobars" =>
                /\ i = Len(attempts_log)
                /\ Len(mktDataTimes) = i
                /\ attempt = i - 1
                /\ mid_pc = "return"
                /\ mid_ret = None
          /\ (ConsumesRetry(attempts_log[i]) /\ i < Len(attempts_log)) =>
                /\ attempt >= i
                /\ Len(mktDataTimes) > i
    /\ (attempts_log # <<>> /\ ConsumesRetry(attempts_log[Len(attempts_log)])) =>
          /\ mid_pc = "retry" => attempt = Len(attempts_log) - 1
          /\ mid_pc \in {"while", "if"} => attempt = Len(attempts_log)
          /\ mid_pc = "return" =>
                (attempt = max_retries /\ Len(attempts_log) = max_retries
                 /\ mid_ret = None)
    /\ mid_pc = "retry" => ENABLED Retry
    /\ (mid_pc = "while" /\ attempt < max_retries) =>
          (ENABLED MktDataAnswers /\ ~ENABLED Exhausted)

\* C25 witness: with three retries allowed, the first attempt matched no
\* branch, the second found no bars, and None was returned after two requests.
C25_Witness ==
    /\ max_retries = 3
    /\ attempts_log = <<"nobranch", "nobars">>
    /\ mid_pc = "return"
    /\ mid_ret = None
    /\ Len(mktDataTimes) = 2
    /\ attempt = 1

\* =====================================================================
\* Properties of get_closest_strike and get_atm_strike
\* =====================================================================
\* |x - y| of two numbers in halves.
Distance(x, y) == IF x.v >= y.v THEN x.v - y.v ELSE y.v - x.v

\* Element i of the chain takes part in the distance comparison.
Candidate(i) ==
    cs_fn = "get_atm_strike" \/ option_chain[i].bid.k \notin {"None", "NaN"}

ReturnedStrike == cs_pc = "return" /\ cs_ret.k = "num"

\* C4: a returned strike is the strike of a candidate of the chain and no
\* candidate is strictly closer to the target, whatever the order of the chain.
C4_ClosestStrikeMinimizes ==
    ReturnedStrike =>
        /\ price.k = "num"
        /\ \E i \in 1..Len(option_chain) :
              Candidate(i) /\ option_chain[i].strike = cs_ret
        /\ \A i \in 1..Len(option_chain) :
              Candidate(i) =>
                  Distance(option_chain[i].strike, price) >= Distance(cs_ret, price)

\* C4 witness: a chain whose nearest strike, listed first, has no bid; the
\* nearest of the remaining ones is returned.
C4_Witness ==
    /\ ReturnedStrike
    /\ cs_fn = "get_closest_strike"
    /\ price = Num(6)
    /\ Len(option_chain) = 2
    /\ option_chain[1] = [strike |-> Num(6), bid |-> NaN]
    /\ option_chain[2].strike = Num(4)
    /\ cs_ret = Num(4)

\* C5 as claimed: get_closest_strike never returns a strike whose bid is None,
\* NaN or the -1 sentinel.
C5_NoInvalidBid ==
    (ReturnedStrike /\ cs_fn = "get_closest_strike") =>
        (chosen_bid.k = "num" /\ chosen_bid.v # -2)

\* C5 amended: get_closest_strike never returns a strike whose bid is None or
\* NaN: every such element is excluded before the distance comparison. A bid
\* of -1 is not excluded.
C5_NoNoneOrNaNBid ==
    (ReturnedStrike /\ cs_fn = "get_closest_strike") =>
        /\ chosen_bid.k = "num"
        /\ \E i \in 1..Len(option_chain) :
              option_chain[i] = [strike |-> cs_ret, bid |-> chosen_bid]

\* C5 witness: the nearest strike has a None bid and is passed over; the strike
\* returned is quoted -1.
C5_Witness ==
    /\ ReturnedStrike
    /\ cs_fn = "get_closest_strike"
    /\ price = Num(2)
    /\ Len(option_chain) = 2
    /\ option_chain[1] = [strike |-> Num(2), bid |-> None]
    /\ option_chain[2] = [strike |-> Num(4), bid |-> MinusOne]
    /\ cs_ret = Num(4)
    /\ chosen_bid = MinusOne

CsTerminal == cs_pc \in {"return", "except"}

\* C6: with no candidate (an empty chain, every bid filtered out, or a broker
\* call or the comparison raising) both functions return NaN; no exception
\* leaves either function and each call reaches its return.
C6_NoMatchIsNaN ==
    /\ cs_pc \in {"request", "for", "return", "except"}
    /\ CsTerminal \/ ENABLED NextCs
    /\ CsTerminal =>
          /\ cs_ret = NaN \/ cs_ret \in Strikes
          /\ option_chain = <<>> => cs_ret = NaN
          /\ (\A i \in 1..Len(option_chain) : ~Candidate(i)) => cs_ret = NaN
          /\ cs_pc = "except" => cs_ret = NaN

\* C6 witness: a chain of three strikes, none with a bid: NaN is returned.
C6_Witness ==
    /\ cs_pc = "return"
    /\ cs_fn = "get_closest_strike"
    /\ Len(option_chain) = 2
    /\ option_chain[1].bid = None
    /\ option_chain[2].bid = NaN
    /\ price.k = "num"
    /\ cs_ret = NaN

\* Entry i of the chain takes part in the comparison: get_closest_strike
\* passes over the entries whose bid is None or NaN, get_atm_strike over none.
Compared(i) ==
    cs_fn = "get_closest_strike" => ~BidFiltered(option_chain[i].bid)

\* The distance of entry i to the price, in halves (price is a number).
DistanceOf(i) == AbsDifference(option_chain[i].strike, price).v

\* Entry i is compared, no compared entry is nearer to the price, and no
\* compared entry listed before it is as near.
FirstNearest(i) ==
    /\ Compared(i)
    /\ \A j \in 1..Len(option_chain) :
          Compared(j) =>
              /\ DistanceOf(i) <= DistanceOf(j)
              /\ (j < i => DistanceOf(i) < DistanceOf(j))

\* C26: the strike get_atm_strike and get_closest_strike return is the strike
\* of the first entry, in the order the broker lists the chain, among those
\* nearest to the price: an equally near entry listed later never replaces
\* it, whether its strike is higher or lower.
C26_FirstListedWinsTie ==
    (cs_pc = "return" /\ cs_ret.k = "num") =>
        \E i \in 1..Len(option_chain) :
            /\ FirstNearest(i)
            /\ cs_ret = option_chain[i].strike

\* C26 witness: the chain lists 3.0 before 1.0, both at distance 1.0 from the
\* price 2.0, and 3.0 is returned; listed the other way round, 1.0 would be.
C26_Witness ==
    /\ cs_pc = "return"
    /\ price = Num(4)
    /\ Len(option_chain) = 2
    /\ option_chain[1].strike = Num(6)
    /\ option_chain[2].strike = Num(2)
    /\ Compared(1) /\ Compared(2)
    /\ cs_ret = Num(6)

\* =====================================================================
\* Properties of get_option_by_target_price
\* =====================================================================
ReturnedOption == tp_pc = "return" /\ tp_ret.option # None

\* Option i of valid_options is as close to the target as the one returned.
TiesWithReturned(i) ==
    PriceDiff(valid_options[i].price, target_price) =
        PriceDiff(tp_ret.price, target_price)

\* C7 as claimed: among the valid options equally close to the target price
\* the one with the highest strike is returned, for puts and calls alike.
C7_HighestStrikeOnTie ==
    ReturnedOption =>
        \A i \in 1..Len(valid_options) :
            TiesWithReturned(i) => valid_options[i].contract.v <= tp_ret.option.v

\* The strike k is on the requested side of the ATM strike.
OnRequestedSide(k) ==
    IF right = "P" THEN PyLessEq(k, atm_strike) ELSE PyLessEq(atm_strike, k)

\* Ticker i carries a strictly positive, finite, non-NaN price in the field
\* read for this right.
QuoteIsValid(i) ==
    LET q == ReadPrice(tickers[i], right)
    IN  q.k = "num" /\ q.v > 0

RECURSIVE SignedSum(_, _)
SignedSum(ls, side) ==
    IF ls = <<>> THEN 0
    ELSE LET l == Head(ls)
             q == IF side = "bid" THEN l.bid ELSE l.ask
             term == IF q.k # "num" THEN 0
                     ELSE IF l.action = "SELL" THEN l.ratio * q.v
                     ELSE 0 - l.ratio * q.v
         IN  term + SignedSum(Tail(ls), side)

\* r is a multiple of the tick and no multiple of the tick is nearer to x.
NearestTick(r, x, tick) ==
    /\ r.k = "num"
    /\ r.v % tick = 0
    /\ 2 * (IF r.v >= x THEN r.v - x ELSE x - r.v) <= tick

\* C8: the triple returned is (bid, mid, ask) with bid and ask the signed sums
\* of the legs' bids and asks (+ratio for a sold leg, -ratio for a bought leg),
\* mid their average, each rounded to the tick size.
C8_ComboSignedSum ==
    cp_pc = "return" =>
        LET B == SignedSum(cp_legs, "bid")
            A == SignedSum(cp_legs, "ask")
        IN  /\ NearestTick(cp_ret.bid, B, cp_tick)
            /\ NearestTick(cp_ret.ask, A, cp_tick)
            /\ (A + B) % 2 = 0
            /\ NearestTick(cp_ret.mid, (A + B) \div 2, cp_tick)

\* C8 witness: the worked example, a BUY leg with bid 1.0 and a SELL leg with
\* bid 2.0 at tick 1.0: the aggregate bid is 1.0.
C8_Witness ==
    /\ cp_pc = "return"
    /\ cp_tick = 2
    /\ Len(cp_legs) = 2
    /\ cp_legs[1].action = "BUY" /\ cp_legs[1].ratio = 1 /\ cp_legs[1].bid = Num(2)
    /\ cp_legs[2].action = "SELL" /\ cp_legs[2].ratio = 1 /\ cp_legs[2].bid = Num(4)
    /\ cp_legs[1].ask = Num(2) /\ cp_legs[2].ask = Num(4)
    /\ cp_ret = [bid |-> Num(2), mid |-> Num(2), ask |-> Num(2)]

\* =====================================================================
\* Properties of calc_combo_model_price
\* =====================================================================
\* A valid quote: a number, not None, not NaN and not the -1 sentinel.
ValidQuote(q) == q.k = "num" /\ q.v # -2
BothQuotesValid == ValidQuote(cm_ticker.bid) /\ ValidQuote(cm_ticker.ask)

\* The current leg has just been given a price / has just been skipped.
LegPriced == cm_pc = "price"
LegSkipped ==
    /\ cm_pc = "for"
    /\ leg_log # <<>>
    /\ leg_log[Len(leg_log)] = "skipped"

\* C9 as claimed: a leg's price is the model price if it arrived, else the
\* bid/ask midpoint, used only when both bid and ask are valid quotes, else the
\* historical close; the midpoint is never computed from a -1 or NaN side.
C9_MidpointOnlyFromValidQuotes ==
    LegPriced =>
        /\ model_arrived => (~hist_asked /\ cm_ticker = NoQuotes)
        /\ (~model_arrived /\ ~hist_asked) =>
              /\ BothQuotesValid
              /\ opt_price = Num((cm_ticker.bid.v + cm_ticker.ask.v) \div 2)
        /\ (~model_arrived /\ hist_asked) => (~BothQuotesValid /\ opt_price \in Quotes)

\* C10 as claimed: a leg is skipped only when no model price arrived, no
\* midpoint is available and the historical request, which is made whenever
\* the midpoint is unavailable, gave no bars; the legs after a skipped one are
\* still processed.
C10_SkippedOnlyWithoutAnySource ==
    /\ LegSkipped => (~model_arrived /\ ~BothQuotesValid /\ hist_asked)
    /\ cm_pc = "return" => Len(leg_log) = Len(strategy_legs)

\* The legs that were given a price, by position in strategy_legs.
PricedLegs == {i \in 1..Len(leg_prices) : ~IsNone(leg_prices[i])}

\* The sum over the first n legs of sign * ratio * price, in halves, counting
\* only the legs priced with a number: +1 for a BUY leg, -1 for a SELL leg.
RECURSIVE PricedSum(_)
PricedSum(n) ==
    IF n = 0 THEN 0
    ELSE LET term ==
                 IF leg_prices[n].k # "num" THEN 0
                 ELSE IF strategy_legs[n].action = "BUY"
                      THEN strategy_legs[n].ratio * leg_prices[n].v
                      ELSE 0 - strategy_legs[n].ratio * leg_prices[n].v
         IN  term + PricedSum(n - 1)

\* C11: the value returned is the sum over the priced legs of sign * ratio *
\* price (+1 for BUY, -1 for SELL) rounded to the nearest multiple of min_tick;
\* it is NaN exactly when some priced leg's price is NaN, so a strategy whose
\* legs all have a numeric price gets a number.
C11_SignedSumRoundedToTick ==
    cm_pc = "return" =>
        IF \E i \in PricedLegs : isnan(leg_prices[i])
        THEN isnan(cm_ret)
        ELSE NearestTick(cm_ret, PricedSum(Len(leg_prices)), min_tick)

\* C11 witness: a bought leg at the model price 2.0 and two units of a sold leg
\* at the midpoint 1.5, at tick 1.0: 2.0 - 3.0 = -1.0 is returned.
C11_Witness ==
    /\ cm_pc = "return"
    /\ min_tick = 2
    /\ Len(strategy_legs) = 2
    /\ strategy_legs[1] = [action |-> "BUY", ratio |-> 1]
    /\ strategy_legs[2] = [action |-> "SELL", ratio |-> 2]
    /\ leg_log = <<"model", "mid">>
    /\ leg_prices = <<Num(4), Num(3)>>
    /\ cm_ret = Num(-2)

\* C12 as claimed: when no leg was priced (every leg skipped, or no legs at
\* all) the value returned is NaN, not 0.0.
C12_NothingPricedIsNaN ==
    (cm_pc = "return" /\ PricedLegs = {}) => isnan(cm_ret)

\* Prices, in halves, on which tick rounding is tried apart from the totals
\* the strategies produce.
TickProbe == (0 - 4 * MaxQuote)..(4 * MaxQuote)

\* The expression is idempotent on every probed price and tick size.
IdempotentOnProbe ==
    \A x \in TickProbe, t \in TickSizes :
        /\ RoundToTick(RoundToTick(Num(x), t), t) = RoundToTick(Num(x), t)
        /\ (x % t = 0 => RoundToTick(Num(x), t) = Num(x))

C20_FirstRequestTheoretical ==
    opened > 0 => first_request_type = TheoreticalType

\* C21 as claimed: when calc_combo_model_price returns, every subscription it
\* opened with reqMktData has been cancelled with cancelMktData, the first
\* request of a leg that fell back and the requests of skipped legs included.
C21_EverySubscriptionCancelled ==
    cm_pc = "return" => cancelled = opened

\* =====================================================================
\* Properties of submit_adaptive_order_trailing_stop
\* =====================================================================
\* C14: the orders form a bracket. The first order placed is the Adaptive
\* primary with transmit=False; a second order is placed only when the primary
\* has an order id, and it is the trailing stop with parentId the primary's
\* orderId, the opposite action, the same quantity and auxPrice stop_loss_amt;
\* nothing else is placed.
C14_BracketOrders ==
    /\ Len(placed) <= 2
    /\ Len(placed) >= 1 =>
          /\ placed[1].algoStrategy = "Adaptive"
          /\ placed[1].orderType = order_type
          /\ placed[1].action = ord_action
          /\ placed[1].transmit = FALSE
          /\ placed[1].parentId = 0
    /\ Len(placed) = 2 =>
          /\ placed[1].orderId # 0
          /\ placed[2].orderType = "TRAIL"
          /\ placed[2].parentId = placed[1].orderId
          /\ placed[2].action # placed[1].action
          /\ placed[2].action \in {"BUY", "SELL"}
          /\ placed[2].totalQuantity = placed[1].totalQuantity
          /\ placed[2].auxPrice = stop_loss_amt

\* C14 witness: a SELL primary with id 1 and its BUY trailing stop are placed.
C14_Witness ==
    /\ ord_pc = "return"
    /\ Len(placed) = 2
    /\ placed[1].action = "SELL" /\ placed[1].orderId = 1
    /\ placed[2].action = "BUY" /\ placed[2].parentId = 1
    /\ placed[2].auxPrice = Num(2)
    /\ quantity = 2

\* C15 as claimed: the primary order is returned only when both the primary
\* and the trailing stop obtained an order id; otherwise None is returned.
C15_PrimaryOnlyOnSuccess ==
    ord_pc = "return" =>
        IF Len(placed) = 2 /\ placed[1].orderId # 0 /\ placed[2].orderId # 0
        THEN ord_ret = primary_order
        ELSE ord_ret = None

\* C22: nothing is transmitted when is_live is False: no order is placed with
\* transmit=True. Whatever is_live is, the primary is placed with
\* transmit=False; the only order placed with transmit=True is the trailing
\* stop of a live submission, placed second as the child of a primary that has
\* an order id, so the primary is never released without its stop.
C22_TransmitOnlyByLiveChild ==
    /\ ~is_live => \A i \in 1..Len(placed) : ~placed[i].transmit
    /\ Len(placed) >= 1 => ~placed[1].transmit
    /\ Len(placed) = 2 => placed[2].transmit = is_live
    /\ \A i \in 1..Len(placed) :
          placed[i].transmit =>
              /\ is_live
              /\ i = 2
              /\ placed[i].orderType = "TRAIL"
              /\ placed[1].orderId # 0
              /\ placed[i].parentId = placed[1].orderId

\* C22 witness: a dry run (is_live False) placed the primary and its trailing
\* stop, neither with transmit=True.
C22_Witness ==
    /\ ord_pc = "return"
    /\ ~is_live
    /\ Len(placed) = 2
    /\ ~placed[1].transmit /\ ~placed[2].transmit
    /\ placed[2].parentId = placed[1].orderId

\* C23 as claimed: a call that refuses its input (action not BUY or SELL, or
\* order_type not MKT or LMT) has no effect: it places no order and leaves the
\* contract passed in, its exchange included, as it was.
C23_RejectionHasNoEffect ==
    [][(OrdInvalidAction \/ OrdInvalidType) =>
          /\ placed' = placed
          /\ contract_exchange' = contract_exchange]_vars

\* =====================================================================
\* Properties of the strategy functions and create_bag
\* =====================================================================
CreditSpread == strategy \in {"put_credit_spread", "call_credit_spread"}

\* C16 as claimed: in the strategy legs and in the BAG's combo legs of a credit
\* spread, the leg at short_strike is sold and the leg at long_strike is
\* bought, both of the same right and with ratio 1.
C16_SellShortBuyLong ==
    (bag_pc = "return" /\ CreditSpread) =>
        /\ Len(bag_ret.legs) = 2
        /\ Len(bag_ret.bag.comboLegs) = 2
        /\ bag_ret.legs[1].leg.strike = short_strike
        /\ bag_ret.legs[2].leg.strike = long_strike
        /\ bag_ret.legs[1].leg.right = bag_ret.legs[2].leg.right
        /\ bag_ret.legs[1].action = "SELL" /\ bag_ret.legs[2].action = "BUY"
        /\ bag_ret.legs[1].ratio = 1 /\ bag_ret.legs[2].ratio = 1
        /\ bag_ret.bag.comboLegs[1].action = "SELL"
        /\ bag_ret.bag.comboLegs[2].action = "BUY"
        /\ bag_ret.bag.comboLegs[1].ratio = 1
        /\ bag_ret.bag.comboLegs[2].ratio = 1

\* C17 as claimed: a BAG that is returned has one combo leg per leg of the
\* strategy, in order, each with a non-zero conId; no BAG is returned when
\* the qualification of a leg gave no contract id.
C17_BagOnlyFromQualifiedLegs ==
    bag_pc = "return" =>
        /\ Len(bag_ret.bag.comboLegs) = Len(LegPlan)
        /\ \A i \in 1..Len(bag_ret.bag.comboLegs) :
              /\ bag_ret.bag.comboLegs[i].conId = legs[i].conId
              /\ bag_ret.bag.comboLegs[i].conId # 0

\* =====================================================================
\* Properties of the connection loop
\* =====================================================================
\* C18: at most max_retries (5) connect attempts are made and none after a
\* successful one; a failed attempt that is not the last is followed by the
\* next attempt exactly retry_interval later; nothing is waited for after the
\* last failed attempt; and the loop ends: until it has ended it can always
\* take a step, and every step either ends it or uses up an attempt.
C18_ConnectionLoopBounded ==
    /\ Len(connect_log) <= ib_max_retries
    /\ ib_max_retries = 5
    /\ \A i \in 1..Len(connect_log) :
          i < Len(connect_log) =>
              /\ ~connect_log[i].ok
              /\ connect_log[i + 1].at = connect_log[i].end + ib_retry_interval
    /\ (ib_pc = "done" /\ ~connected) =>
          /\ Len(connect_log) = ib_max_retries
          /\ ib_now = connect_log[Len(connect_log)].end
    /\ connected <=> (connect_log # <<>> /\ connect_log[Len(connect_log)].ok)
    /\ connected => ib_pc = "done"
    /\ ib_pc = "for" => (ENABLED NextIb /\ Len(connect_log) = ib_attempt)

\* C18 witness: five attempts failed and the loop has ended.
C18_Witness ==
    /\ ib_pc = "done"
    /\ ~connected
    /\ Len(connect_log) = 5
    /\ connect_log[5].at = connect_log[4].end + 2

\* =====================================================================
\* main.py run as a script: the import of ib_instance, then lines 13-24
\* =====================================================================
InitScript ==
    /\ ib_pc = "for"
    /\ IbLocals
    /\ main_pc = "import"
    /\ spx_min_tick \in TickSizes
    /\ MainLocals
    /\ MidIdle
    /\ CsIdle
    /\ TpIdle
    /\ CpIdle
    /\ CmIdle
    /\ OrdIdle
    /\ BagIdle

\* main.py lines 1-13: the imports are over once the body of ib_instance has
\* run to its end; nothing looks at the state of the session.
MainImported ==
    /\ main_pc = "import"
    /\ ib_pc = "done"
    /\ main_pc' = "start"
    /\ UNCHANGED <<current_mid, main_atm, lower_contract, higher_contract,
                   spx_min_tick, pcs_mid, ccs_mid, pcs_stop_loss_amt,
                   ccs_stop_loss_amt, orders_submitted, main_exc>>
    /\ UNCHANGED notMain

NextScript ==
    \/ NextIb
    \/ MainImported
    \/ MainQualifyRaises
    \/ MainGetMid

SpecScript == InitScript /\ [][NextScript]_vars

\* Every connect attempt made so far has failed.
AllAttemptsFailed ==
    \A i \in 1..Len(connect_log) : ~connect_log[i].ok

\* C27: the import of ib_instance never ends by an exception; when all
\* max_retries attempts have failed it completes with the session unconnected;
\* the script then goes on whatever the state of the session, and its first
\* broker requests (qualify_contract, get_current_mid_price) are issued with
\* no check of the connection, which nothing after the import changes.
C27_UnconnectedImportProceeds ==
    /\ ib_pc \in {"for", "done"}
    /\ (Len(connect_log) = ib_max_retries /\ AllAttemptsFailed) =>
          (~connected /\ (ib_pc = "for" => ENABLED IbGivesUp))
    /\ (ib_pc = "done" /\ ~connected) =>
          (Len(connect_log) = ib_max_retries /\ AllAttemptsFailed)
    /\ main_pc # "import" => ib_pc = "done"
    /\ (main_pc = "import" /\ ib_pc = "done") => ENABLED MainImported
    /\ main_pc = "start" => (ENABLED MainGetMid /\ ENABLED MainQualifyRaises)
    /\ connected <=> (connect_log # <<>> /\ connect_log[Len(connect_log)].ok)

\* C27 witness: five attempts failed, the import completed, and the script
\* has issued its first broker request on the unconnected session.
C27_Witness ==
    /\ ib_pc = "done"
    /\ ~connected
    /\ Len(connect_log) = 5
    /\ AllAttemptsFailed
    /\ main_pc \in {"details", "crashed"}

\* =====================================================================
\* Properties of main.py
\* =====================================================================
\* A helper has reported a missing result by its sentinel.
MidUnavailable == IsNone(current_mid) \/ isnan(current_mid)
OptionMissing == lower_contract = None \/ higher_contract = None

\* C19 as claimed: the script never ends by an exception raised on a
\* sentinel (a TypeError or AttributeError from using None), and when a
\* helper reported a missing result no order is submitted.
C19_SentinelsRecognised ==
    /\ main_exc \notin {"TypeError", "AttributeError"}
    /\ (MidUnavailable \/ OptionMissing) => orders_submitted = 0

====
